---- MODULE Spec2Model ----
(***************************************************************************)
(* A model of the StudyAI backend (Flask, Python).                         *)
(*                                                                         *)
(*   routes/exam_prep.py  generate_questions_with_groq: the chunking loop, *)
(*                        the per-chunk request/parse/normalise loop, and  *)
(*                        the generate-questions handler around it;        *)
(*                        upload-papers and download-questions.            *)
(*   database.py          the tables users and user_data.                  *)
(*   routes/auth.py       sync-user, get-user, delete-user, user-data.     *)
(*   routes/word_editor.py  upload-doc, edit-doc, download-doc and the     *)
(*                        DOCX and PDF builders.                           *)
(*                                                                         *)
(* Strings are modelled as what they are, sequences of characters.  A      *)
(* document text is thousands of characters long, so it is kept sparsely:  *)
(* a length, the characters at a few chosen positions (sp), one optional   *)
(* run of blanks (run), and the letter "a" everywhere else.  CharAt gives  *)
(* the character at a position; every string operation on a text (slice,  *)
(* rfind, strip) is computed from CharAt's definition.  A slice of the     *)
(* text is a pair of positions lo, hi: the substring text[lo:hi].          *)
(***************************************************************************)
EXTENDS Integers, Sequences, FiniteSets, TLC

VARIABLES
    pc,             \* position of the running call
    groq_api_key,   \* os.getenv('GROQ_API_KEY') is set
    text,           \* argument of generate_questions_with_groq
    i,              \* the chunking loop's window start
    chunks,         \* the chunk list, each chunk a slice [lo, hi] of text
    windows,        \* one entry per iteration of the chunking loop
    chunk_idx,      \* "for i, chunk in enumerate(chunks)": the chunk's number
    response,       \* what the latest request to the endpoint came to
    n_requests,     \* requests.post calls made so far
    chunk_log,      \* per chunk handled: "ok", "error" (except) or "skipped"
    all_questions,  \* the list generate_questions_with_groq returns
    q_in,           \* q, the returned record being normalised
    q_out,          \* normalized, its normalised form
    response_content,   \* the content of the response being parsed
    json_string,        \* what of it is handed to json.loads
    calls,              \* the requests handled at the same time, each with
                        \* its position and its locals
    papers_data,    \* the papers of the generate-questions request
    paper_idx,      \* "for paper in papers_data": the paper's number
    req_questions,  \* the handler's all_questions
    http,           \* the handler's response
    uploaded_papers,        \* module global of exam_prep.py
    generated_questions,    \* module global of exam_prep.py
    questions_id_counter,   \* module global of exam_prep.py
    paper_id_counter,       \* module global of exam_prep.py
    documents,              \* module global of word_editor.py
    doc_id_counter,         \* module global of word_editor.py
    users,                  \* the rows of the table users
    user_data,              \* the rows of the table user_data
    db_locked,              \* a connection left open holds the write lock
    default_formatting      \* module global DEFAULT_FORMATTING of word_editor.py

chunkVars == <<text, i, chunks, windows>>

groqVars == <<chunk_idx, response, n_requests, chunk_log, all_questions>>

normVars == <<q_in, q_out, response_content, json_string, calls>>

reqVars == <<papers_data, paper_idx, req_questions, http>>

storeVars ==
    <<paper_id_counter, documents, doc_id_counter, users, user_data, db_locked,
      default_formatting>>

globalVars ==
    <<uploaded_papers, generated_questions, questions_id_counter, storeVars>>

vars == <<pc, groq_api_key, chunkVars, groqVars, normVars, reqVars, globalVars>>

----------------------------------------------------------------------------
(* Bounds of the model                                                     *)

\* how many positions of a text hold a chosen character
MaxSpecials == 3

\* the same for the texts on which termination is checked
MaxLiveSpecials == 1

----------------------------------------------------------------------------
(* Program constants                                                       *)

MAX_CHUNK_SIZE == 6000
OVERLAP_SIZE == 800

----------------------------------------------------------------------------
(* Characters and texts                                                    *)

NL == "\n"
SPC == " "
QM == "?"
DOT == "."

\* str.strip() removes whitespace; of the characters a text holds here
\* the blank and the newline are whitespace
IsSpace(c) == c \in {SPC, NL}

Min(a, b) == IF a < b THEN a ELSE b

MaxOf(S) == CHOOSE x \in S : \A y \in S : y <= x

MinOf(S) == CHOOSE x \in S : \A y \in S : x <= y

\* text[p]
CharAt(t, p) ==
    IF p \in DOMAIN t.sp THEN t.sp[p]
    ELSE IF t.run[1] <= p /\ p < t.run[2] THEN SPC
    ELSE "a"

\* text[lo:hi].rfind(c) for a one-character c other than "a" and the blank:
\* the index, inside the slice, of the last c, or -1
RFind(t, lo, hi, c) ==
    LET S == {p \in DOMAIN t.sp : lo <= p /\ p < hi /\ t.sp[p] = c}
    IN  IF S = {} THEN -1 ELSE MaxOf(S) - lo

\* text[lo:hi].rfind('\n\n')
RFindNLNL(t, lo, hi) ==
    LET S == {p \in DOMAIN t.sp :
                /\ lo <= p /\ p + 1 < hi
                /\ t.sp[p] = NL
                /\ CharAt(t, p + 1) = NL}
    IN  IF S = {} THEN -1 ELSE MaxOf(S) - lo

\* The positions at which a maximal stretch of whitespace of t can end or
\* begin: a stretch of whitespace is made of chosen characters and of the
\* run, so the first character after it (and the last before it) is next
\* to one of them.
EdgesOf(t) ==
    DOMAIN t.sp \cup {p + 1 : p \in DOMAIN t.sp} \cup {p - 1 : p \in DOMAIN t.sp}
        \cup {t.run[1] - 1, t.run[1], t.run[2] - 1, t.run[2]}

\* text[lo:hi].strip() as a slice: the first and one past the last
\* non-whitespace position of lo..hi-1; <<hi, hi>> (the empty string) when
\* there is none
Strip(t, lo, hi) ==
    LET C == {p \in EdgesOf(t) \cup {lo, hi - 1} :
                lo <= p /\ p < hi /\ ~IsSpace(CharAt(t, p))}
    IN  IF C = {} THEN <<hi, hi>> ELSE <<MinOf(C), MaxOf(C) + 1>>

----------------------------------------------------------------------------
(* generate_questions_with_groq: chunking                                  *)

\* len(text) > MAX_CHUNK_SIZE
NeedsChunkingLE(t) == t.len >= MAX_CHUNK_SIZE

NeedsChunking(t) == t.len > MAX_CHUNK_SIZE

\* chunk_end = min(i + MAX_CHUNK_SIZE, len(text))
ChunkEndUncapped(t, start) == Min(start + MAX_CHUNK_SIZE + OVERLAP_SIZE, t.len)

ChunkEnd(t, start) == Min(start + MAX_CHUNK_SIZE, t.len)

\* The boundary chosen inside chunk = text[start:chunk_end].  The rfind
\* results are indexes inside the chunk; the code compares them with
\* chunk_end, a position of the text.
Boundary(t, start, chunk_end) ==
    LET last_question_mark == RFind(t, start, chunk_end, QM)
        last_double_newline == RFindNLNL(t, start, chunk_end)
        last_newline == RFind(t, start, chunk_end, NL)
        last_period == RFind(t, start, chunk_end, DOT)
    IN  IF last_question_mark > chunk_end - 1000 THEN last_question_mark
        ELSE IF last_double_newline > chunk_end - 800 THEN last_double_newline
        ELSE IF last_newline > chunk_end - 500 THEN last_newline
        ELSE IF last_period > chunk_end - 300 THEN last_period
        ELSE -1

\* "if boundary > chunk_end - 1000"
GoodBoundary(boundary, chunk_end) == boundary > chunk_end - 1000

\* the end, in the text, of the chunk of this iteration
CutPoint(t, start, chunk_end) ==
    LET boundary == Boundary(t, start, chunk_end)
    IN  IF chunk_end < t.len /\ GoodBoundary(boundary, chunk_end)
        THEN start + boundary + 1
        ELSE chunk_end

\* the value of i after the iteration
NextStartSkip(t, start, chunk_end) ==
    LET boundary == Boundary(t, start, chunk_end)
    IN  IF chunk_end < t.len
        THEN IF GoodBoundary(boundary, chunk_end)
             THEN start + boundary + 1 + OVERLAP_SIZE
             ELSE chunk_end + OVERLAP_SIZE
        ELSE chunk_end

NextStartNoOverlap(t, start, chunk_end) ==
    LET boundary == Boundary(t, start, chunk_end)
    IN  IF chunk_end < t.len
        THEN IF GoodBoundary(boundary, chunk_end)
             THEN start + boundary + 1
             ELSE chunk_end - OVERLAP_SIZE
        ELSE chunk_end

NextStartNoProgress(t, start, chunk_end) ==
    LET boundary == Boundary(t, start, chunk_end)
    IN  IF chunk_end < t.len
        THEN IF GoodBoundary(boundary, chunk_end)
             THEN start + boundary + 1 - OVERLAP_SIZE
             ELSE chunk_end - MAX_CHUNK_SIZE
        ELSE chunk_end

NextStart(t, start, chunk_end) ==
    LET boundary == Boundary(t, start, chunk_end)
    IN  IF chunk_end < t.len
        THEN IF GoodBoundary(boundary, chunk_end)
             THEN start + boundary + 1 - OVERLAP_SIZE
             ELSE chunk_end - OVERLAP_SIZE
        ELSE chunk_end

\* "if chunk.strip(): chunks.append(chunk.strip())"
AppendStripped(cs, t, lo, hi) ==
    LET s == Strip(t, lo, hi)
    IN  IF s[1] < s[2] THEN Append(cs, [lo |-> s[1], hi |-> s[2]]) ELSE cs

\* the single chunk of a short text: chunks = [text]
WholeText(t) == <<[lo |-> 0, hi |-> t.len]>>

\* The function is entered: the API key is read and the text is either
\* kept whole or handed to the chunking loop.
EnterGroq ==
    /\ pc = "call"
    /\ IF ~groq_api_key
       THEN /\ pc' = "raised"
            /\ UNCHANGED <<i, chunks, windows>>
       ELSE IF NeedsChunking(text)
       THEN /\ pc' = "chunking"
            /\ i' = 0
            /\ chunks' = <<>>
            /\ UNCHANGED windows
       ELSE /\ pc' = "chunked"
            /\ chunks' = WholeText(text)
            /\ UNCHANGED <<i, windows>>
    /\ UNCHANGED <<groq_api_key, text, groqVars, normVars, reqVars, globalVars>>

\* One iteration of "while i < len(text)".
ChunkStep ==
    /\ pc = "chunking"
    /\ i < text.len
    /\ LET chunk_end == ChunkEnd(text, i)
           cut == CutPoint(text, i, chunk_end)
           nxt == NextStart(text, i, chunk_end)
       IN  /\ chunks' = AppendStripped(chunks, text, i, cut)
           /\ windows' = Append(windows,
                            [start |-> i, chunk_end |-> chunk_end, cut |-> cut])
           /\ i' = nxt
           /\ pc' = IF nxt < text.len THEN "chunking" ELSE "chunked"
    /\ UNCHANGED <<groq_api_key, text, groqVars, normVars, reqVars, globalVars>>

----------------------------------------------------------------------------
(* Python strings and JSON values of the model's response                  *)
(*                                                                         *)
(* A string is a sequence of characters.  A JSON value is a record         *)
(* [t, v]: a string ("str", its characters), a number ("num", the          *)
(* characters of its Python str()) or null ("null").                       *)

UPPER == <<"A", "B", "C", "D", "E", "F", "G", "H", "I", "J", "K", "L", "M",
           "N", "O", "P", "Q", "R", "S", "T", "U", "V", "W", "X", "Y", "Z">>

LOWER == <<"a", "b", "c", "d", "e", "f", "g", "h", "i", "j", "k", "l", "m",
           "n", "o", "p", "q", "r", "s", "t", "u", "v", "w", "x", "y", "z">>

DIGITS == <<"0", "1", "2", "3", "4", "5", "6", "7", "8", "9">>

UpperSet == {UPPER[k] : k \in 1 .. 26}

LowerSet == {LOWER[k] : k \in 1 .. 26}

DigitSet == {DIGITS[k] : k \in 1 .. 10}

ToLower == [c \in UpperSet |-> LOWER[CHOOSE k \in 1 .. 26 : UPPER[k] = c]]

IsUpper(c) == c \in UpperSet

\* the character c.lower()
LowerChar(c) == IF c \in UpperSet THEN ToLower[c] ELSE c

\* s.lower()
Lower(s) == [k \in 1 .. Len(s) |-> LowerChar(s[k])]

\* s.strip()
StripS(s) ==
    LET C == {k \in 1 .. Len(s) : ~IsSpace(s[k])}
    IN  IF C = {} THEN <<>> ELSE SubSeq(s, MinOf(C), MaxOf(C))

\* s.rstrip()
RStripS(s) ==
    LET C == {k \in 1 .. Len(s) : ~IsSpace(s[k])}
    IN  IF C = {} THEN <<>> ELSE SubSeq(s, 1, MaxOf(C))

\* sub in s
Contains(s, sub) ==
    \E k \in 1 .. (Len(s) - Len(sub) + 1) : SubSeq(s, k, k + Len(sub) - 1) = sub

\* s.endswith(suffix)
EndsWith(s, suffix) ==
    /\ Len(suffix) <= Len(s)
    /\ SubSeq(s, Len(s) - Len(suffix) + 1, Len(s)) = suffix

\* s[-n:]
LastN(s, n) == IF Len(s) <= n THEN s ELSE SubSeq(s, Len(s) - n + 1, Len(s))

StrVal(s) == [t |-> "str", v |-> s]

NumVal(s) == [t |-> "num", v |-> s]

NullVal == [t |-> "null", v |-> <<>>]

\* str(x)
PyStr(x) == IF x.t = "null" THEN <<"N", "o", "n", "e">> ELSE x.v

DigitOf(c) == (CHOOSE k \in 1 .. 10 : DIGITS[k] = c) - 1

IsDigit(c) == c \in DigitSet

\* the digits of s read as a natural number
RECURSIVE DigitsValue(_)
DigitsValue(s) ==
    IF s = <<>> THEN 0
    ELSE 10 * DigitsValue(SubSeq(s, 1, Len(s) - 1)) + DigitOf(s[Len(s)])

\* list.append(record)
ListAppendEvicting(list, record) ==
    IF Len(list) >= 1 THEN <<record>> ELSE Append(list, record)

ListAppend(list, record) == Append(list, record)

\* list.append(record) for each of the records
ListExtend(list, records) == list \o records

\* str(n) of a natural number
RECURSIVE StrOfInt(_)
StrOfInt(n) ==
    IF n < 10 THEN <<DIGITS[n + 1]>>
    ELSE StrOfInt(n \div 10) \o <<DIGITS[(n % 10) + 1]>>

\* float(x) succeeds.  None raises TypeError; of the strings, those that
\* are decimal numerals (digits, then optionally a point and one or two
\* digits), with whitespace around them allowed, are read here, and any
\* other string raises ValueError.
FloatOk(x) ==
    /\ x.t # "null"
    /\ LET s == StripS(x.v)
           dots == {k \in 1 .. Len(s) : s[k] = DOT}
       IN  /\ Len(s) >= 1
           /\ \A k \in 1 .. Len(s) : IsDigit(s[k]) \/ s[k] = DOT
           /\ Cardinality(dots) <= 1
           /\ \A k \in dots : k > 1 /\ Len(s) - k \in {1, 2}

\* float(x), in hundredths
FloatOf(x) ==
    LET s == StripS(x.v)
        dots == {k \in 1 .. Len(s) : s[k] = DOT}
    IN  IF dots = {} THEN 100 * DigitsValue(s)
        ELSE LET k == CHOOSE d \in dots : TRUE
                 frac == SubSeq(s, k + 1, Len(s))
             IN  100 * DigitsValue(SubSeq(s, 1, k - 1))
                   + (IF Len(frac) = 1 THEN 10 * DigitsValue(frac)
                      ELSE DigitsValue(frac))

\* q.get(key, default)
Get(q, key, default) == IF key \in DOMAIN q THEN q[key] ELSE default

----------------------------------------------------------------------------
(* generate_questions_with_groq: normalising one returned record           *)

S_medium == <<"m", "e", "d", "i", "u", "m">>

S_General == <<"G", "e", "n", "e", "r", "a", "l">>

S_not_provided == <<"n", "o", "t", " ", "p", "r", "o", "v", "i", "d", "e", "d">>

S_answer_not == <<"a", "n", "s", "w", "e", "r", " ", "n", "o", "t">>

\* 'Answer will be generated based on document content.'
PLACEHOLDER ==
    <<"A", "n", "s", "w", "e", "r", " ", "w", "i", "l", "l", " ", "b", "e", " ",
      "g", "e", "n", "e", "r", "a", "t", "e", "d", " ", "b", "a", "s", "e", "d", " ", "o", "n", " ",
      "d", "o", "c", "u", "m", "e", "n", "t", " ", "c", "o", "n", "t", "e", "n", "t", ".">>

\* question_text
QuestionText(q) ==
    StripS(PyStr(Get(q, "question", Get(q, "Question", StrVal(<<>>)))))

\* str(q.get('answer', q.get('Answer', q.get('solution', '')))).strip()
RawAnswerText(q) ==
    StripS(PyStr(Get(q, "answer",
                     Get(q, "Answer", Get(q, "solution", StrVal(<<>>))))))

\* answer_text, after the placeholder rule
AnswerTextCaseSensitive(q) ==
    LET a == RawAnswerText(q)
    IN  IF \/ a = <<>>
           \/ Contains(a, S_not_provided)
           \/ Contains(a, S_answer_not)
        THEN PLACEHOLDER
        ELSE a

AnswerText(q) ==
    LET a == RawAnswerText(q)
    IN  IF \/ a = <<>>
           \/ Contains(Lower(a), S_not_provided)
           \/ Contains(Lower(a), S_answer_not)
        THEN PLACEHOLDER
        ELSE a

\* the 'importance' of the normalised record
ImportanceOfNoLower(q) ==
    PyStr(Get(q, "importance", Get(q, "Importance", StrVal(S_medium))))

ImportanceOf(q) ==
    Lower(PyStr(Get(q, "importance", Get(q, "Importance", StrVal(S_medium)))))

\* its 'topic'
TopicOf(q) == PyStr(Get(q, "topic", Get(q, "Topic", StrVal(S_General))))

\* its 'difficulty'
DifficultyOf(q) ==
    Lower(PyStr(Get(q, "difficulty", Get(q, "Difficulty", StrVal(S_medium)))))

\* the value handed to float() for 'confidence'
ConfidenceArg(q) ==
    Get(q, "confidence", Get(q, "Confidence", NumVal(<<"0", ".", "8">>)))

\* The incompleteness heuristics (logged only)

StopWords ==
    {<<"b", "e", "c", "a", "u", "s", "e">>, <<"w", "h", "e", "n">>, <<"w", "h", "e", "r", "e">>, <<"w", "h", "i", "c", "h">>, <<"w", "h", "a", "t">>, <<"h", "o", "w">>, <<"w", "h", "y">>,
     <<"t", "h", "e">>, <<"a", " ">>, <<"a", "n", " ">>, <<"a", "n", "d", " ">>, <<"o", "r", " ">>, <<"b", "u", "t", " ">>}

TerminalChars == {".", "?", "!", ":", NL}

\* Check 1: no terminal punctuation and a stop word near the end
EndsAbruptly(question_text) ==
    /\ Len(question_text) > 50
    /\ question_text[Len(question_text)] \notin TerminalChars
    /\ ~EndsWith(question_text, <<".", ".", ".">>)
    /\ \E w \in StopWords : Contains(Lower(LastN(question_text, 50)), w)

\* a character matched by \w
IsWordChar(c) == c \in UpperSet \/ c \in LowerSet \/ c \in DigitSet \/ c = "_"

\* re.search(r'\b[A-Z]\.\s', question_text)
HasOptions(question_text) ==
    \E k \in 1 .. (Len(question_text) - 2) :
        /\ IsUpper(question_text[k])
        /\ (k = 1 \/ ~IsWordChar(question_text[k - 1]))
        /\ question_text[k + 1] = DOT
        /\ IsSpace(question_text[k + 2])

\* Check 2: options are mentioned and none is shown
MentionsOptionsWithoutThem(question_text) ==
    /\ \/ Contains(Lower(question_text), <<"o", "p", "t", "i", "o", "n">>)
       \/ Contains(Lower(question_text), <<"c", "h", "o", "o", "s", "e">>)
       \/ Contains(Lower(question_text), <<"s", "e", "l", "e", "c", "t">>)
    /\ ~HasOptions(question_text)
    /\ Len(question_text) < 200

\* Check 3: ends with "because" and no blank to fill in
EndsWithBecause(question_text) ==
    LET r == RStripS(question_text)
    IN  /\ \/ EndsWith(r, <<"b", "e", "c", "a", "u", "s", "e">>)
           \/ EndsWith(r, <<"b", "e", "c", "a", "u", "s", "e", " ", "_", "_", "_", "_", "_", "_", "_", "_">>)
           \/ EndsWith(r, <<"b", "e", "c", "a", "u", "s", "e", " ", "_", "_", "_", "_", "_">>)
        /\ ~EndsWith(r, <<"_", "_", "_", "_", "_", "_", "_", "_">>)
        /\ ~EndsWith(r, <<"_", "_", "_", "_", "_">>)

\* is_incomplete
IsIncomplete(question_text) ==
    /\ question_text # <<>>
    /\ \/ EndsAbruptly(question_text)
       \/ MentionsOptionsWithoutThem(question_text)
       \/ EndsWithBecause(question_text)

\* float(...) of the record's confidence raises
NormalizeRaises(q) == ~FloatOk(ConfidenceArg(q))

\* normalized = {...}
Normalized(q) ==
    [question |-> QuestionText(q),
     answer |-> AnswerText(q),
     importance |-> ImportanceOf(q),
     topic |-> TopicOf(q),
     difficulty |-> DifficultyOf(q),
     confidence |-> FloatOf(ConfidenceArg(q))]

\* "if normalized['question'] and len(normalized['question']) > 10"
IsValidAtLeast10(normalized) ==
    normalized.question # <<>> /\ Len(normalized.question) >= 10

IsValid(normalized) ==
    normalized.question # <<>> /\ Len(normalized.question) > 10

----------------------------------------------------------------------------
(* The parts of the state a run does not use                               *)

NoResponse == [kind |-> "none", items |-> <<>>]

NoRecord == [k \in {} |-> NullVal]

NoText == [len |-> 0, sp |-> [p \in {} |-> SPC], run |-> <<0, 0>>]

ChunkIdle == text = NoText /\ i = 0 /\ chunks = <<>> /\ windows = <<>>

GroqIdle ==
    /\ chunk_idx = 1
    /\ response = NoResponse
    /\ n_requests = 0
    /\ chunk_log = <<>>
    /\ all_questions = <<>>

\* the requests that can be handled at the same time
Calls == {1, 2}

NoCall == [pc |-> "none"]

NoCalls == [c \in Calls |-> NoCall]

NormIdle ==
    /\ q_in = NoRecord
    /\ q_out = NoRecord
    /\ response_content = <<>>
    /\ json_string = <<>>
    /\ calls = NoCalls

\* jsonify({'success': ..., 'message': message, ...}), status.  A message
\* is [text, exc]: its fixed text and the exception whose str() it
\* includes ("none" when it includes none); caught is the exception the
\* handler's outermost "except Exception" caught ("none" when it ran
\* to a return of the try block).
Answer(status, fixed, exc, caught) ==
    [status |-> status, success |-> status = 200,
     message |-> [text |-> fixed, exc |-> exc], caught |-> caught]

\* no answer yet
NoHttp == Answer(0, "", "none", "none")

ReqIdle ==
    /\ papers_data = <<>>
    /\ paper_idx = 1
    /\ req_questions = <<>>
    /\ http = NoHttp

\* The module global DEFAULT_FORMATTING of word_editor.py

BoolVal(b) == [t |-> "bool", v |-> IF b THEN <<"1">> ELSE <<>>]

MarginsVal(t, top, bottom, left, right) ==
    [t |-> t, top |-> top, bottom |-> bottom, left |-> left, right |-> right]

\* a margins dict as an object: obj tells which dict it is, "default" the
\* one DEFAULT_FORMATTING['margins'] refers to, "copy" one that a merge
\* has made; two records with obj "default" are the same dict
MarginsObj(obj, top, bottom, left, right) ==
    [obj |-> obj] @@ MarginsVal("dict", top, bottom, left, right)

DEFAULT_FORMATTING ==
    [fontFamily |-> StrVal(<<"A", "r", "i", "a", "l">>),
     fontSize |-> NumVal(<<"1", "2">>),
     fontColor |-> StrVal(<<"#", "0", "0", "0", "0", "0", "0">>),
     bold |-> BoolVal(FALSE),
     italic |-> BoolVal(FALSE),
     underline |-> BoolVal(FALSE),
     margins |-> MarginsObj("default", 100, 100, 100, 100),
     alignment |-> StrVal(<<"l", "e", "f", "t">>),
     lineSpacing |-> NumVal(<<"1", ".", "5">>),
     pageNumbers |-> BoolVal(FALSE)]

\* the module globals when the process starts
GlobalsAtStart ==
    /\ uploaded_papers = <<>>
    /\ generated_questions = <<>>
    /\ questions_id_counter = 1
    /\ paper_id_counter = 1
    /\ documents = <<>>
    /\ doc_id_counter = 1
    /\ users = {}
    /\ user_data = {}
    /\ db_locked = FALSE
    /\ default_formatting = DEFAULT_FORMATTING

----------------------------------------------------------------------------
(* The texts the chunking is run on                                        *)

Lengths == {100, 6000, 6001, 11201, 12000}

Positions == {0, 5000, 5001, 5300, 5301, 5600, 5999, 10500}

Chars == {QM, NL, DOT, SPC}

\* no run, or the text ends in 1600 blanks
Runs == {<<0, 0>>, <<10400, 12000>>}

Texts ==
    {[len |-> n, sp |-> f, run |-> r] :
        n \in Lengths,
        f \in UNION {[D -> Chars] :
                 D \in {E \in SUBSET Positions : Cardinality(E) <= MaxSpecials}},
        r \in Runs}

ValidText(t) ==
    /\ \A p \in DOMAIN t.sp : p < t.len
    /\ t.run[2] <= t.len

InitChunk ==
    /\ pc = "call"
    /\ groq_api_key = TRUE
    /\ text \in {t \in Texts : ValidText(t)}
    /\ i = 0
    /\ chunks = <<>>
    /\ windows = <<>>
    /\ GroqIdle
    /\ NormIdle
    /\ ReqIdle
    /\ GlobalsAtStart

NextChunk == EnterGroq \/ ChunkStep

SpecChunk == InitChunk /\ [][NextChunk]_vars

\* The same call on the texts with at most MaxLiveSpecials chosen
\* characters, running on: the interpreter executes the next statement of
\* the call as long as there is one.
InitChunkLive ==
    /\ InitChunk
    /\ Cardinality(DOMAIN text.sp) <= MaxLiveSpecials

SpecChunkLive == InitChunkLive /\ [][NextChunk]_vars /\ WF_vars(NextChunk)

----------------------------------------------------------------------------
(* The body of "for q_idx, q in enumerate(questions)" on one record        *)

\* all_questions after the body has run on record rec without raising
NormalizeInto(acc, rec) ==
    LET n == Normalized(rec)
    IN  IF IsValid(n) THEN Append(acc, n) ELSE acc

NormalizeRecord ==
    /\ pc = "normalize"
    /\ IF NormalizeRaises(q_in)
       THEN /\ pc' = "raised"
            /\ UNCHANGED <<q_out, all_questions>>
       ELSE /\ pc' = "normalized"
            /\ q_out' = Normalized(q_in)
            /\ all_questions' = NormalizeInto(all_questions, q_in)
    /\ UNCHANGED <<groq_api_key, chunkVars, chunk_idx, response, n_requests,
                   chunk_log, q_in, response_content, json_string, calls,
                   reqVars, globalVars>>

\* The records the body is run on: each takes one choice for each field.

\* What is X?  (10 characters)
Q_10 ==
    <<"W", "h", "a", "t", " ", "i", "s", " ", "X", "?">>

\* What is XY?  (11 characters)
Q_11 ==
    <<"W", "h", "a", "t", " ", "i", "s", " ", "X", "Y", "?">>

\* 10 characters inside whitespace
Q_10_padded ==
    <<" ", " ", "W", "h", "a", "t", " ", "i", "s", " ", "X", "?", "\n">>

\* 11 characters inside whitespace
Q_11_padded ==
    <<" ", "W", "h", "a", "t", " ", "i", "s", " ", "X", "Y", "?", " ">>

\* mentions options and shows none
Q_option ==
    <<"S", "e", "l", "e", "c", "t", " ", "t", "h", "e", " ", "b", "e", "s",
      "t", " ", "o", "p", "t", "i", "o", "n">>

\* mentions options and shows them
Q_options_shown ==
    <<"C", "h", "o", "o", "s", "e", " ", "o", "n", "e", ":", " ", "A", ".",
      " ", "r", "e", "d", " ", "B", ".", " ", "b", "l", "u", "e">>

Q_because ==
    <<"I", "c", "e", " ", "f", "l", "o", "a", "t", "s", " ", "b", "e", "c",
      "a", "u", "s", "e">>

Q_because_blank ==
    <<"I", "c", "e", " ", "f", "l", "o", "a", "t", "s", " ", "b", "e", "c",
      "a", "u", "s", "e", " ", "_", "_", "_", "_", "_", "_", "_", "_">>

\* more than 50 characters, no final punctuation, a stop word at the end
Q_abrupt ==
    <<"D", "e", "s", "c", "r", "i", "b", "e", " ", "h", "o", "w", " ", "h",
      "e", "a", "t", " ", "m", "o", "v", "e", "s", " ", "t", "h", "r", "o",
      "u", "g", "h", " ", "t", "h", "e", " ", "o", "c", "e", "a", "n", " ",
      "a", "n", "d", " ", "w", "h", "y", " ", "i", "t", " ", "m", "a", "t",
      "t", "e", "r", "s", " ", "f", "o", "r", " ", "t", "h", "e">>

QuestionChoices ==
    {NoRecord,
     [question |-> NullVal],
     [question |-> StrVal(<<>>)],
     [question |-> StrVal(Q_10)],
     [question |-> StrVal(Q_11)],
     [question |-> StrVal(Q_10_padded)],
     [question |-> StrVal(Q_11_padded)],
     [question |-> StrVal(Q_option)],
     [question |-> StrVal(Q_options_shown)],
     [question |-> StrVal(Q_because)],
     [question |-> StrVal(Q_because_blank)],
     [question |-> StrVal(Q_abrupt)],
     [Question |-> StrVal(Q_11)],
     [question |-> StrVal(Q_10), Question |-> StrVal(Q_11)]}

A_blue ==
    <<"B", "l", "u", "e">>

A_padded ==
    <<" ", "C", ".", " ", "B", "l", "u", "e", "\n">>

A_blank ==
    <<" ", " ">>

A_Not_Provided ==
    <<"A", "n", "s", "w", "e", "r", " ", "N", "o", "t", " ", "P", "r", "o",
      "v", "i", "d", "e", "d">>

A_not_provided_in_text ==
    <<"I", "t", " ", "i", "s", " ", "n", "o", "t", " ", "p", "r", "o", "v",
      "i", "d", "e", "d", " ", "h", "e", "r", "e">>

\* contains "answer not", does not contain "not provided"
A_answer_notes ==
    <<"T", "h", "e", " ", "a", "n", "s", "w", "e", "r", " ", "n", "o", "t",
      "e", "s", " ", "a", " ", "c", "a", "u", "s", "e">>

A_ANSWER_NOT ==
    <<"A", "N", "S", "W", "E", "R", " ", "N", "O", "T", " ", "G", "I", "V",
      "E", "N">>

AnswerChoices ==
    {NoRecord,
     [answer |-> NullVal],
     [answer |-> StrVal(<<>>)],
     [answer |-> StrVal(A_blank)],
     [answer |-> StrVal(A_blue)],
     [answer |-> StrVal(A_padded)],
     [answer |-> StrVal(A_Not_Provided)],
     [answer |-> StrVal(A_not_provided_in_text)],
     [answer |-> StrVal(A_answer_notes)],
     [answer |-> StrVal(A_ANSWER_NOT)],
     [Answer |-> StrVal(A_blue)],
     [solution |-> StrVal(A_padded)],
     [answer |-> StrVal(<<>>), Answer |-> StrVal(A_blue)]}

ImportanceChoices ==
    {NoRecord,
     [importance |-> NullVal],
     [importance |-> StrVal(<<"H", "I", "G", "H">>)],
     [Importance |-> StrVal(<<"L", "o", "w">>)],
     [importance |-> StrVal(<<"l", "o", "w">>),
      Importance |-> StrVal(<<"H", "i", "g", "h">>)]}

TopicChoices ==
    {NoRecord,
     [topic |-> NullVal],
     [topic |-> StrVal(<<"M", "a", "t", "h">>)],
     [Topic |-> StrVal(<<"A", "r", "t">>)]}

DifficultyChoices ==
    {NoRecord,
     [difficulty |-> StrVal(<<"H", "a", "r", "d">>)],
     [Difficulty |-> StrVal(<<"E", "A", "S", "Y">>)]}

ConfidenceChoices ==
    {NoRecord,
     [confidence |-> NullVal],
     [confidence |-> NumVal(<<"0", ".", "9">>)],
     [confidence |-> NumVal(<<"1">>)],
     [confidence |-> StrVal(<<"0", ".", "9", "5">>)],
     [confidence |-> StrVal(<<"h", "i", "g", "h">>)],
     [Confidence |-> NumVal(<<"0", ".", "5">>)]}

RawRecords ==
    {a @@ b @@ c @@ d @@ e @@ f :
        a \in QuestionChoices, b \in AnswerChoices, c \in ImportanceChoices,
        d \in TopicChoices, e \in DifficultyChoices, f \in ConfidenceChoices}

InitNorm ==
    /\ pc = "normalize"
    /\ groq_api_key = TRUE
    /\ ChunkIdle
    /\ GroqIdle
    /\ q_in \in RawRecords
    /\ q_out = NoRecord
    /\ response_content = <<>>
    /\ json_string = <<>>
    /\ calls = NoCalls
    /\ ReqIdle
    /\ GlobalsAtStart

NextNorm == NormalizeRecord

SpecNorm == InitNorm /\ [][NextNorm]_vars

----------------------------------------------------------------------------
(* generate_questions_with_groq: one request per chunk                     *)
(*                                                                         *)
(* What a request comes to is a record [kind, items]:                      *)
(*   "raise"        requests.post raises (timeout, connection error)       *)
(*   "not_ok"       a non-2xx response: "raise Exception(Groq API error)"  *)
(*   "empty"        no content in the response: "continue"                 *)
(*   "unparseable"  no JSON can be recovered from the content: ValueError  *)
(*   "nonarray"     the JSON is not a list: "continue"                     *)
(*   "array"        a JSON array, items its elements in order              *)
(* An element of the array is [dict, rec]: a JSON object with the fields   *)
(* rec, or (dict = FALSE) some other JSON value, on which q.get raises.    *)

\* how many elements a returned array has at most
MaxItems == 2

\* handling the element raises: q.get on a non-object, or float()
ItemRaises(item) == ~item.dict \/ NormalizeRaises(item.rec)

\* all_questions after the normalisation loop has run over items,
\* starting from acc; the loop stops at the first element that raises
RECURSIVE ProcessItems(_, _)
ProcessItems(acc, items) ==
    IF items = <<>> THEN acc
    ELSE IF ItemRaises(Head(items)) THEN acc
    ELSE ProcessItems(NormalizeInto(acc, Head(items).rec), Tail(items))

\* the try block ends in "except Exception"
ChunkRaises(r) ==
    \/ r.kind \in {"raise", "not_ok", "unparseable"}
    \/ r.kind = "array" /\ \E k \in 1 .. Len(r.items) : ItemRaises(r.items[k])

\* all_questions after the chunk whose request came to r
QuestionsAfterReset(acc, r) ==
    IF ChunkRaises(r) THEN <<>>
    ELSE IF r.kind = "array" THEN ProcessItems(acc, r.items)
    ELSE acc

QuestionsAfter(acc, r) ==
    IF r.kind = "array" THEN ProcessItems(acc, r.items) ELSE acc

\* what is printed about the chunk
LogOf(r) ==
    IF ChunkRaises(r) THEN "error"
    ELSE IF r.kind \in {"empty", "nonarray"} THEN "skipped"
    ELSE "ok"

\* an iteration that asks again for a chunk whose request failed
HandleChunkRetrying(r) ==
    /\ pc = "chunked"
    /\ chunk_idx <= Len(chunks)
    /\ n_requests' = n_requests + 1
    /\ response' = r
    /\ all_questions' = QuestionsAfter(all_questions, r)
    /\ chunk_log' = Append(chunk_log, LogOf(r))
    /\ chunk_idx' = IF r.kind \in {"raise", "not_ok"} /\ n_requests < 4
                       THEN chunk_idx
                       ELSE chunk_idx + 1
    /\ UNCHANGED <<pc, groq_api_key, chunkVars, normVars, reqVars, globalVars>>

\* One iteration of "for i, chunk in enumerate(chunks)": the request is
\* sent and what comes back is handled.
HandleChunk(r) ==
    /\ pc = "chunked"
    /\ chunk_idx <= Len(chunks)
    /\ n_requests' = n_requests + 1
    /\ response' = r
    /\ all_questions' = QuestionsAfter(all_questions, r)
    /\ chunk_log' = Append(chunk_log, LogOf(r))
    /\ chunk_idx' = chunk_idx + 1
    /\ UNCHANGED <<pc, groq_api_key, chunkVars, normVars, reqVars, globalVars>>

\* "return all_questions"
ReturnQuestions ==
    /\ pc = "chunked"
    /\ chunk_idx > Len(chunks)
    /\ pc' = "returned"
    /\ UNCHANGED <<groq_api_key, chunkVars, groqVars, normVars, reqVars,
                   globalVars>>

\* The elements a returned array is made of

ItemA ==
    [dict |-> TRUE,
     rec |-> [question |-> StrVal(Q_11), answer |-> StrVal(A_blue)]]

ItemB ==
    [dict |-> TRUE,
     rec |-> [question |-> StrVal(Q_option), Importance |-> StrVal(<<"L", "o", "w">>)]]

ItemShort ==
    [dict |-> TRUE,
     rec |-> [question |-> StrVal(Q_10), answer |-> StrVal(A_blue)]]

ItemBadConfidence ==
    [dict |-> TRUE,
     rec |-> [question |-> StrVal(Q_11),
              confidence |-> StrVal(<<"h", "i", "g", "h">>)]]

ItemNotDict == [dict |-> FALSE, rec |-> NoRecord]

\* the elements that do not raise
GroqItems == {ItemA, ItemB, ItemShort}

Failure(kind) == [kind |-> kind, items |-> <<>>]

ArraysOf(Items, n) ==
    {[kind |-> "array", items |-> its] :
        its \in UNION {[1 .. k -> Items] : k \in 0 .. n}}

GroqResponses ==
    {Failure(k) : k \in {"raise", "not_ok", "empty", "unparseable", "nonarray"}}
        \cup ArraysOf(GroqItems, MaxItems)
        \cup {[kind |-> "array", items |-> its] :
                 its \in {<<ItemA, ItemNotDict>>, <<ItemNotDict>>,
                          <<ItemA, ItemBadConfidence>>,
                          <<ItemBadConfidence, ItemB>>}}

\* The texts of the calls: one, two and three chunks
PlainText(n) == [len |-> n, sp |-> [p \in {} |-> SPC], run |-> <<0, 0>>]

GroqTexts == {PlainText(100), PlainText(6001), PlainText(12000)}

InitGroq ==
    /\ pc = "call"
    /\ groq_api_key \in BOOLEAN
    /\ text \in GroqTexts
    /\ i = 0
    /\ chunks = <<>>
    /\ windows = <<>>
    /\ GroqIdle
    /\ NormIdle
    /\ ReqIdle
    /\ GlobalsAtStart

NextGroq ==
    \/ EnterGroq
    \/ ChunkStep
    \/ \E r \in GroqResponses : HandleChunk(r)
    \/ ReturnQuestions

SpecGroq == InitGroq /\ [][NextGroq]_vars

----------------------------------------------------------------------------
(* generate_questions_with_groq: parsing the content of a response         *)
(*                                                                         *)
(* The content is a sequence of symbols: the characters "[", "]", "{",     *)
(* "}", "1", "," and the blank, and two strings kept as one symbol each:   *)
(* the code fence of three backticks (FENCE) and "json".  The fence with   *)
(* json after it is in a content where FENCE is followed by "json";        *)
(* "json" anywhere else is prose.  The JSON values that can be written     *)
(* with these symbols are the numbers 1, 11, ..., the empty object, and    *)
(* the arrays of such values.                                              *)

\* how many symbols the content has between what is put around it
MaxCore == 4

FENCE == "fence"

\* s.replace(FENCE + 'json', ''): the occurrences are taken from the
\* left and what is left is not looked at again
RECURSIVE RemoveFenceJson(_)
RemoveFenceJson(s) ==
    IF Len(s) < 2 THEN s
    ELSE IF s[1] = FENCE /\ s[2] = "json"
    THEN RemoveFenceJson(SubSeq(s, 3, Len(s)))
    ELSE <<s[1]>> \o RemoveFenceJson(Tail(s))

\* s.replace(FENCE + 'json', '').replace(FENCE, '')
RemoveFences(s) == SelectSeq(RemoveFenceJson(s), LAMBDA c : c # FENCE)

\* lines 317-321: the content stripped, and without its code fences when
\* it starts with one
Unfenced(content) ==
    LET s == StripS(content)
    IN  IF s # <<>> /\ s[1] = FENCE THEN StripS(RemoveFences(s)) ELSE s

\* the positions of the symbol c in s
IndicesOf(s, c) == {k \in 1 .. Len(s) : s[k] = c}

\* a slice that ends at the first "]"
ArraySliceToFirstClose(s) ==
    LET opens == IndicesOf(s, "[")
        closes == IndicesOf(s, "]")
        braces == IndicesOf(s, "}")
        start == MinOf(opens)
        last_brace == IF braces = {} THEN 0 ELSE MaxOf(braces)
    IN  IF opens = {} THEN [raised |-> FALSE, json_string |-> s]
        ELSE IF closes # {}
        THEN [raised |-> FALSE,
              json_string |-> SubSeq(s, start, MinOf(closes))]
        ELSE IF last_brace > start
        THEN [raised |-> FALSE,
              json_string |-> SubSeq(s, start, last_brace) \o <<"]">>]
        ELSE [raised |-> TRUE, json_string |-> s]

\* lines 325-341: [raised, json_string].  json_string[start:end] is the
\* empty string when the last "]" is before the first "["; rfind gives a
\* position before every start when there is no "}".
ArraySlice(s) ==
    LET opens == IndicesOf(s, "[")
        closes == IndicesOf(s, "]")
        braces == IndicesOf(s, "}")
        start == MinOf(opens)
        last_brace == IF braces = {} THEN 0 ELSE MaxOf(braces)
    IN  IF opens = {} THEN [raised |-> FALSE, json_string |-> s]
        ELSE IF closes # {}
        THEN [raised |-> FALSE,
              json_string |-> SubSeq(s, start, MaxOf(closes))]
        ELSE IF last_brace > start
        THEN [raised |-> FALSE,
              json_string |-> SubSeq(s, start, last_brace) \o <<"]">>]
        ELSE [raised |-> TRUE, json_string |-> s]

\* the first position of s from p on that holds no blank
RECURSIVE SkipWs(_, _)
SkipWs(s, p) ==
    IF p <= Len(s) /\ s[p] = SPC THEN SkipWs(s, p + 1) ELSE p

\* the first position of s from p on that holds no digit
RECURSIVE SkipDigits(_, _)
SkipDigits(s, p) ==
    IF p <= Len(s) /\ s[p] = "1" THEN SkipDigits(s, p + 1) ELSE p

NoJson == [ok |-> FALSE, next |-> 0, kind |-> "none", items |-> <<>>]

\* json.loads reading one value of s from position p on: [ok, next, kind,
\* items], next the position after the value, kind "num", "dict" or
\* "list", items the kinds of the elements of a list
RECURSIVE JsonValue(_, _)
RECURSIVE JsonElements(_, _, _)
JsonValue(s, p) ==
    LET q == SkipWs(s, p)
    IN  IF q > Len(s) THEN NoJson
        ELSE IF s[q] = "1"
        THEN [ok |-> TRUE, next |-> SkipDigits(s, q), kind |-> "num",
              items |-> <<>>]
        ELSE IF s[q] = "{"
        THEN LET r == SkipWs(s, q + 1)
             IN  IF r <= Len(s) /\ s[r] = "}"
                 THEN [ok |-> TRUE, next |-> r + 1, kind |-> "dict",
                       items |-> <<>>]
                 ELSE NoJson
        ELSE IF s[q] = "["
        THEN LET r == SkipWs(s, q + 1)
             IN  IF r <= Len(s) /\ s[r] = "]"
                 THEN [ok |-> TRUE, next |-> r + 1, kind |-> "list",
                       items |-> <<>>]
                 ELSE JsonElements(s, q + 1, <<>>)
        ELSE NoJson

\* the elements of a list from position p on, acc the kinds of those read
JsonElements(s, p, acc) ==
    LET v == JsonValue(s, p)
        r == SkipWs(s, v.next)
    IN  IF ~v.ok \/ r > Len(s) THEN NoJson
        ELSE IF s[r] = "]"
        THEN [ok |-> TRUE, next |-> r + 1, kind |-> "list",
              items |-> Append(acc, v.kind)]
        ELSE IF s[r] = ","
        THEN JsonElements(s, r + 1, Append(acc, v.kind))
        ELSE NoJson

\* json.loads(s); ok is FALSE when it raises JSONDecodeError
JsonLoads(s) ==
    LET v == JsonValue(s, 1)
    IN  IF v.ok /\ SkipWs(s, v.next) > Len(s) THEN v ELSE NoJson

\* What the content of a response comes to (lines 309-355), as the record
\* [kind, items] of a request
ParsedResponse(content) ==
    LET slice == ArraySlice(Unfenced(content))
        value == JsonLoads(slice.json_string)
    IN  IF content = <<>> THEN [kind |-> "empty", items |-> <<>>]
        ELSE IF slice.raised \/ ~value.ok
        THEN [kind |-> "unparseable", items |-> <<>>]
        ELSE IF value.kind # "list" THEN [kind |-> "nonarray", items |-> <<>>]
        ELSE [kind |-> "array",
              items |-> [k \in 1 .. Len(value.items) |->
                            [dict |-> value.items[k] = "dict",
                             rec |-> NoRecord]]]

\* Lines 309-355 on the content of one response
ParseContent ==
    /\ pc = "content"
    /\ json_string' = IF response_content = <<>> THEN <<>>
                      ELSE ArraySlice(Unfenced(response_content)).json_string
    /\ response' = ParsedResponse(response_content)
    /\ pc' = "parsed"
    /\ UNCHANGED <<groq_api_key, chunkVars, chunk_idx, n_requests, chunk_log,
                   all_questions, q_in, q_out, response_content, calls,
                   reqVars, globalVars>>

\* The contents that are parsed: up to MaxCore symbols of JSON, as they
\* are, after prose, or in a code fence

CoreSymbols == {"[", "]", "{", "}", "1", ","}

Cores == UNION {[1 .. n -> CoreSymbols] : n \in 0 .. MaxCore}

ResponseContents ==
    {pre \o core \o post :
        pre \in {<<>>, <<FENCE, "json", SPC>>, <<"json", SPC>>},
        core \in Cores,
        post \in {<<>>, <<SPC, FENCE, SPC>>}}

InitParse ==
    /\ pc = "content"
    /\ groq_api_key = TRUE
    /\ ChunkIdle
    /\ GroqIdle
    /\ q_in = NoRecord
    /\ q_out = NoRecord
    /\ response_content \in ResponseContents
    /\ json_string = <<>>
    /\ calls = NoCalls
    /\ ReqIdle
    /\ GlobalsAtStart

NextParse == ParseContent

SpecParse == InitParse /\ [][NextParse]_vars

----------------------------------------------------------------------------
(* extract_text_from_file and the generate-questions handler               *)
(*                                                                         *)
(* A paper of the request is a record: filePath is "absent" (no or empty   *)
(* 'filePath'), "missing" (a path at which no file exists) or "file"; ext  *)
(* is the extension of its filename; readable says whether the library     *)
(* for that extension reads the file without raising; content is the text  *)
(* it returns.                                                             *)

\* how many papers a request carries at most
MaxPapers == 2

SupportedExts == {".pdf", ".docx", ".doc", ".txt"}

\* extract_text_from_file raises
ExtractRaisesOnlyMissing(paper) == paper.filePath # "file"

ExtractRaises(paper) ==
    \/ paper.filePath # "file"
    \/ paper.ext \notin SupportedExts
    \/ ~paper.readable

\* len(extracted_text.strip())
StrippedLen(t) == LET s == Strip(t, 0, t.len) IN s[2] - s[1]

\* "if not extracted_text or len(extracted_text.strip()) < 10: raise"
\* (reached only when the stripped text has fewer than 50 characters)
InsufficientText(t) ==
    /\ t.len = 0 \/ StrippedLen(t) < 50
    /\ t.len = 0 \/ StrippedLen(t) < 10

\* Step 2, the cleanup:
\*   clean_text = re.sub(r'\n{3,}', '\n\n', extracted_text)
\*   clean_text = re.sub(r'  +', ' ', clean_text).strip()
\* The first substitution removes, from each run of newlines, the third
\* and later ones; the second removes, from each run of blanks, the
\* second and later ones; strip() then removes the whitespace left at
\* both ends.  The characters that stay keep their order.
Clean(t) ==
    LET W == DOMAIN t.sp \cup (t.run[1] .. (t.run[2] - 1))
        ThirdNewline(p) ==
            /\ CharAt(t, p) = NL
            /\ p >= 2 /\ CharAt(t, p - 1) = NL /\ CharAt(t, p - 2) = NL
        SecondBlank(p) ==
            CharAt(t, p) = SPC /\ p >= 1 /\ CharAt(t, p - 1) = SPC
        R == {p \in W : ThirdNewline(p) \/ SecondBlank(p)}
        \* what strip() leaves of the text once R is removed: between the
        \* first and the last non-whitespace character
        core == Strip(t, 0, t.len)
        lo == core[1]
        hi == core[2]
        NewPos(p) == p - lo - Cardinality({r \in R : lo <= r /\ r < p})
        Keep == {p \in W : lo <= p /\ p < hi /\ p \notin R}
    IN  [len |-> (hi - lo) - Cardinality({r \in R : lo <= r /\ r < hi}),
         sp |-> [n \in {NewPos(p) : p \in Keep} |->
                    CharAt(t, CHOOSE p \in Keep : NewPos(p) = n)],
         run |-> <<0, 0>>]

\* all_questions.extend(questions), under "if questions"
ExtendQuestionsReplace(acc, questions) ==
    IF questions # <<>> THEN questions ELSE acc

ExtendQuestions(acc, questions) ==
    IF questions # <<>> THEN acc \o questions ELSE acc

\* The request is read: its papers, or else the stored papers its
\* paperIds select (all of them when it gives none); 404 when there
\* are none.  paper_ids is the set of ids the request names.
StartRequest(paper_ids) ==
    /\ pc = "request"
    /\ LET fallback ==
               SelectSeq(uploaded_papers,
                         LAMBDA p : paper_ids = {} \/ p.id \in paper_ids)
           papers == IF papers_data # <<>> THEN papers_data ELSE fallback
       IN  /\ papers_data' = papers
           /\ IF papers = <<>>
              THEN /\ http' = Answer(404, "No papers found", "none", "none")
                   /\ pc' = "done"
              ELSE /\ pc' = "papers"
                   /\ UNCHANGED http
    /\ paper_idx' = 1
    /\ req_questions' = <<>>
    /\ UNCHANGED <<groq_api_key, chunkVars, groqVars, normVars, globalVars>>

\* One paper of "for paper in papers_data", up to the call of
\* generate_questions_with_groq: a paper without a file is skipped, a
\* paper whose extraction raises or gives too little text is given up.
NextPaper ==
    /\ pc = "papers"
    /\ paper_idx <= Len(papers_data)
    /\ LET paper == papers_data[paper_idx]
       IN  IF \/ ExtractRaises(paper)
              \/ InsufficientText(paper.content)
           THEN /\ paper_idx' = paper_idx + 1
                /\ UNCHANGED <<pc, chunkVars, groqVars>>
           ELSE /\ pc' = "call"
                /\ text' = Clean(paper.content)
                /\ i' = 0
                /\ chunks' = <<>>
                /\ windows' = <<>>
                /\ chunk_idx' = 1
                /\ response' = NoResponse
                /\ chunk_log' = <<>>
                /\ all_questions' = <<>>
                /\ UNCHANGED <<paper_idx, n_requests>>
    /\ UNCHANGED <<groq_api_key, normVars, papers_data, req_questions, http,
                   globalVars>>

\* generate_questions_with_groq has returned its list, or raised
FinishPaper ==
    /\ pc \in {"returned", "raised"}
    /\ req_questions' =
         IF pc = "returned"
         THEN ExtendQuestions(req_questions, all_questions)
         ELSE req_questions
    /\ paper_idx' = paper_idx + 1
    /\ pc' = "papers"
    /\ UNCHANGED <<groq_api_key, chunkVars, groqVars, normVars, papers_data,
                   http, globalVars>>

\* After the last paper: 500 when nothing was collected, else the
\* question set is stored and returned.
Respond ==
    /\ pc = "papers"
    /\ paper_idx > Len(papers_data)
    /\ IF req_questions = <<>>
       THEN /\ http' = Answer(500, "No questions could be generated from the uploaded papers",
                               "none", "none")
            /\ UNCHANGED <<generated_questions, questions_id_counter>>
       ELSE /\ generated_questions' =
                 ListAppend(generated_questions,
                            [id |-> StrOfInt(questions_id_counter),
                             questions |-> req_questions])
            /\ questions_id_counter' = questions_id_counter + 1
            /\ http' = [questions |-> req_questions] @@
                         Answer(200, "Generated questions", "none", "none")
    /\ pc' = "done"
    /\ UNCHANGED <<groq_api_key, chunkVars, groqVars, normVars, papers_data,
                   paper_idx, req_questions, uploaded_papers, storeVars>>

\* The texts the libraries extract

\* five letters
Text5 == PlainText(5)

\* thirty letters
Text30 == PlainText(30)

\* two blanks, letters, three newlines in the middle, letters, a newline
Text100 ==
    [len |-> 100,
     sp |-> (0 :> SPC) @@ (1 :> SPC) @@ (50 :> NL) @@ (51 :> NL)
              @@ (52 :> NL) @@ (99 :> NL),
     run |-> <<0, 0>>]

\* 6005 characters, 6001 after the cleanup
TextLong ==
    [len |-> 6005,
     sp |-> (0 :> NL) @@ (3000 :> SPC) @@ (3001 :> SPC) @@ (3002 :> SPC)
              @@ (6004 :> SPC),
     run |-> <<0, 0>>]

Paper(path, ext, readable, content) ==
    [filePath |-> path, ext |-> ext, readable |-> readable,
     content |-> content]

PaperKinds ==
    {Paper("absent", ".pdf", TRUE, Text100),
     Paper("missing", ".pdf", TRUE, Text100),
     Paper("file", ".xyz", TRUE, Text100),
     Paper("file", ".pdf", FALSE, Text100),
     Paper("file", ".txt", TRUE, Text5),
     Paper("file", ".txt", TRUE, Text30),
     Paper("file", ".docx", TRUE, Text100),
     Paper("file", ".pdf", TRUE, TextLong)}

\* what a request to the endpoint comes to, in a handler run
HandlerResponses ==
    {Failure("raise"), Failure("empty"),
     [kind |-> "array", items |-> <<ItemA>>],
     [kind |-> "array", items |-> <<ItemShort>>],
     [kind |-> "array", items |-> <<ItemB, ItemNotDict>>]}

Init ==
    /\ pc = "request"
    /\ groq_api_key \in BOOLEAN
    /\ ChunkIdle
    /\ GroqIdle
    /\ NormIdle
    /\ papers_data \in UNION {[1 .. n -> PaperKinds] : n \in 0 .. MaxPapers}
    /\ paper_idx = 1
    /\ req_questions = <<>>
    /\ http = NoHttp
    /\ GlobalsAtStart

Next ==
    \/ StartRequest({})
    \/ NextPaper
    \/ EnterGroq
    \/ ChunkStep
    \/ \E r \in HandlerResponses : HandleChunk(r)
    \/ ReturnQuestions
    \/ FinishPaper
    \/ Respond

Spec == Init /\ [][Next]_vars

----------------------------------------------------------------------------
(* database.py and the handlers of routes/auth.py                          *)
(*                                                                         *)
(* A row of users is [id, clerk_id, email, first_name, last_name,          *)
(* full_name, image_url]; a row of user_data is [user_id, key, value].     *)
(* The values of a request are JSON values, None for a key it lacks.       *)
(*                                                                         *)
(* Every function of database.py opens a connection of its own and closes  *)
(* it on its last line.  When the UPDATE or INSERT of create_or_update_user *)
(* raises, conn.close() is not reached: the connection, with its open      *)
(* transaction and the write lock of the file, lives on in the traceback   *)
(* until the garbage collector frees it.  Until then every statement that  *)
(* writes raises sqlite3.OperationalError (database is locked); SELECTs    *)
(* are answered.                                                           *)

\* the rest of the state, which these handlers leave alone
authFrame ==
    <<groq_api_key, chunkVars, groqVars, normVars, papers_data, paper_idx,
      req_questions, uploaded_papers, generated_questions,
      questions_id_counter, paper_id_counter, documents, doc_id_counter,
      default_formatting>>

\* bool(x) of a string or None
Truthy(x) == x.t # "null" /\ x.v # <<>>

\* create_or_update_user: [raised, rows, user].  "email TEXT UNIQUE": the
\* UPDATE or INSERT raises sqlite3.IntegrityError, and nothing is
\* committed, when another row has the email.
CreateOrUpdateUserUnchecked(rows, u) ==
    LET existing == {r \in rows : r.clerk_id = u.clerk_id}
        user == IF existing = {} THEN [id |-> u.clerk_id] @@ u
                ELSE [id |-> (CHOOSE r \in existing : TRUE).id] @@ u
    IN  [raised |-> FALSE, rows |-> (rows \ existing) \cup {user},
         user |-> user]

CreateOrUpdateUser(rows, u) ==
    LET existing == {r \in rows : r.clerk_id = u.clerk_id}
        user == IF existing = {} THEN [id |-> u.clerk_id] @@ u
                ELSE [id |-> (CHOOSE r \in existing : TRUE).id] @@ u
    IN  IF \E r \in rows \ existing : r.email = u.email
        THEN [raised |-> TRUE, rows |-> rows, user |-> user]
        ELSE [raised |-> FALSE, rows |-> (rows \ existing) \cup {user},
              user |-> user]

\* the except clause of a handler whose write met the lock
LockedAnswer ==
    Answer(500, "Internal server error: ", "database is locked",
           "OperationalError")

\* the garbage collector frees the connection a refused sync left open
CollectGarbage ==
    /\ pc = "idle"
    /\ db_locked
    /\ db_locked' = FALSE
    /\ UNCHANGED <<pc, http, users, user_data, authFrame>>

\* POST /sync-user with the JSON object data
SyncUser(data) ==
    /\ pc = "idle"
    /\ LET u == [clerk_id |-> data.clerk_id, email |-> data.email,
                 first_name |-> data.first_name,
                 last_name |-> data.last_name,
                 full_name |-> IF Truthy(data.full_name)
                               THEN data.full_name ELSE data.name,
                 image_url |-> data.image_url]
           res == CreateOrUpdateUser(users, u)
       IN  IF ~Truthy(data.clerk_id) \/ ~Truthy(data.email)
           THEN /\ http' = Answer(400, "clerk_id and email are required",
                                  "none", "none")
                /\ UNCHANGED <<users, db_locked>>
           ELSE IF db_locked
           THEN /\ http' = LockedAnswer
                /\ UNCHANGED <<users, db_locked>>
           ELSE IF res.raised
           THEN /\ http' = Answer(500, "Internal server error: ",
                                  "IntegrityError", "IntegrityError")
                /\ db_locked' = TRUE
                /\ UNCHANGED users
           ELSE /\ http' = [user |-> res.user] @@
                             Answer(200, "User synced successfully",
                                    "none", "none")
                /\ users' = res.rows
                /\ UNCHANGED db_locked
    /\ UNCHANGED <<pc, user_data, authFrame>>

\* GET /get-user/<clerk_id>
GetUser(clerk_id) ==
    /\ pc = "idle"
    /\ LET found == {r \in users : r.clerk_id = clerk_id}
       IN  http' = IF found = {}
                   THEN Answer(404, "User not found", "none", "none")
                   ELSE [user |-> CHOOSE r \in found : TRUE] @@
                          Answer(200, "", "none", "none")
    /\ UNCHANGED <<pc, users, user_data, db_locked, authFrame>>

\* a delete that takes the user's pairs with the row
DeleteUserEndpointCascading(clerk_id) ==
    /\ pc = "idle"
    /\ users' = IF db_locked THEN users
                ELSE {r \in users : r.clerk_id # clerk_id}
    /\ user_data' = IF db_locked THEN user_data
                    ELSE {r \in user_data : r.user_id # clerk_id}
    /\ http' = IF db_locked THEN LockedAnswer
               ELSE IF users' # users
               THEN Answer(200, "User deleted successfully", "none", "none")
               ELSE Answer(404, "User not found", "none", "none")
    /\ UNCHANGED <<pc, db_locked, authFrame>>

\* DELETE /delete-user/<clerk_id>
DeleteUserEndpoint(clerk_id) ==
    /\ pc = "idle"
    /\ users' = IF db_locked THEN users
                ELSE {r \in users : r.clerk_id # clerk_id}
    /\ http' = IF db_locked THEN LockedAnswer
               ELSE IF users' # users
               THEN Answer(200, "User deleted successfully", "none", "none")
               ELSE Answer(404, "User not found", "none", "none")
    /\ UNCHANGED <<pc, user_data, db_locked, authFrame>>

\* set_user_data: "INSERT OR REPLACE" under UNIQUE(user_id, key)
SetUserDataKeepOld(rows, user_id, key, value) ==
    rows \cup {[user_id |-> user_id, key |-> key, value |-> value]}

SetUserData(rows, user_id, key, value) ==
    {r \in rows : ~(r.user_id = user_id /\ r.key = key)}
        \cup {[user_id |-> user_id, key |-> key, value |-> value]}

\* get_user_data: the value, or None
GetUserData(rows, user_id, key) ==
    LET found == {r \in rows : r.user_id = user_id /\ r.key = key}
    IN  IF found = {} THEN NullVal
        ELSE StrVal((CHOOSE r \in found : TRUE).value)

\* get_all_user_data: {row['key']: row['value'] for row in results}
GetAllUserData(rows, user_id) ==
    LET found == {r \in rows : r.user_id = user_id}
    IN  [k \in {r.key : r \in found} |->
            (CHOOSE r \in found : r.key = k).value]

\* set_user_data(user_id, key, str(value)) for the items of data, which
\* are stored in the order of seq
RECURSIVE SetAll(_, _, _, _)
SetAll(rows, user_id, data, seq) ==
    IF seq = <<>> THEN rows
    ELSE SetAll(SetUserData(rows, user_id, Head(seq), PyStr(data[Head(seq)])),
                user_id, data, Tail(seq))

\* GET, POST or PUT /user-data/<clerk_id>; data is the JSON object of
\* the request, a function from its keys to its values
UserData(clerk_id, method, data) ==
    /\ pc = "idle"
    /\ LET found == {r \in users : r.clerk_id = clerk_id}
           user_id == (CHOOSE r \in found : TRUE).id
           keys == CHOOSE seq \in [1 .. Cardinality(DOMAIN data) -> DOMAIN data] :
                      \A k \in DOMAIN data : \E j \in DOMAIN seq : seq[j] = k
       IN  IF found = {}
           THEN /\ http' = Answer(404, "User not found", "none", "none")
                /\ UNCHANGED user_data
           ELSE IF method = "GET"
           THEN /\ http' = [data |-> GetAllUserData(user_data, user_id)] @@
                             Answer(200, "", "none", "none")
                /\ UNCHANGED user_data
           ELSE IF DOMAIN data = {}
           THEN /\ http' = Answer(400, "No data provided", "none", "none")
                /\ UNCHANGED user_data
           ELSE IF db_locked
           THEN /\ http' = LockedAnswer
                /\ UNCHANGED user_data
           ELSE /\ http' = Answer(200, "User data updated successfully",
                                  "none", "none")
                /\ user_data' = SetAll(user_data, user_id, data, keys)
    /\ UNCHANGED <<pc, users, db_locked, authFrame>>

\* The requests made of these handlers

Clerks == {StrVal(<<"u", "1">>), StrVal(<<"u", "2">>)}

\* the name fields of a request: first_name, full_name, name
NameInputs ==
    {<<StrVal(<<"A", "n", "n">>), StrVal(<<"A", "n", "n", " ", "L">>), NullVal>>,
     <<NullVal, StrVal(<<>>), StrVal(<<"A", "l">>)>>}

SyncInputs ==
    {[clerk_id |-> c, email |-> e, first_name |-> n[1], last_name |-> NullVal,
      full_name |-> n[2], name |-> n[3], image_url |-> NullVal] :
        c \in Clerks \cup {NullVal},
        e \in {StrVal(<<"a", "@", "x">>), StrVal(<<"b", "@", "x">>),
               StrVal(<<>>)},
        n \in NameInputs}

\* the JSON objects sent to user-data: no key, or some of the keys
\* theme (a string or a number) and lang (a string)
DataInputs ==
    UNION {{d \in [K -> {StrVal(<<"d", "a", "r", "k">>), NumVal(<<"7">>)}] :
               "lang" \in K => d["lang"].t = "str"} :
              K \in SUBSET {"theme", "lang"}}

InitUsers ==
    /\ pc = "idle"
    /\ groq_api_key = TRUE
    /\ ChunkIdle
    /\ GroqIdle
    /\ NormIdle
    /\ ReqIdle
    /\ GlobalsAtStart

NextUsers ==
    \/ \E data \in SyncInputs : SyncUser(data)
    \/ \E c \in Clerks : GetUser(c)
    \/ \E c \in Clerks : DeleteUserEndpoint(c)
    \/ \E c \in Clerks : UserData(c, "GET", <<>>)
    \/ \E c \in Clerks, method \in {"POST", "PUT"}, data \in DataInputs :
          UserData(c, method, data)
    \/ CollectGarbage

SpecUsers == InitUsers /\ [][NextUsers]_vars

----------------------------------------------------------------------------
(* routes/word_editor.py                                                   *)
(*                                                                         *)
(* A stored document is [id, filename, content, formatting], its strings   *)
(* sequences of characters.  A formatting is a record of the ten keys of   *)
(* DEFAULT_FORMATTING, each a JSON value, margins a record of its own:     *)
(* [t |-> "dict", obj, top, bottom, left, right] with the sides in         *)
(* hundredths of an inch, or t |-> "null" when the key holds None.         *)

\* how many documents are uploaded at most
MaxDocs == 2

\* a merge that starts from the default formatting
MergeFormattingFromDefault(existing, new_values) ==
    IF new_values.t # "dict"
    THEN [raised |-> IF new_values.t = "null" THEN "none" ELSE "AttributeError",
          formatting |-> existing]
    ELSE [raised |-> "none",
          formatting |->
            [k \in DOMAIN existing |->
                IF k \in DOMAIN new_values.v /\ k # "margins"
                THEN new_values.v[k]
                ELSE DEFAULT_FORMATTING[k]]]

\* a merge that updates the margins dict of existing itself
MarginsAfterMergeInPlace(m, existing, new_values) ==
    IF /\ m.t = "dict" /\ m.obj = "default"
       /\ existing.margins.t = "dict" /\ existing.margins.obj = "default"
       /\ new_values.t = "dict"
       /\ "margins" \in DOMAIN new_values.v
       /\ new_values.v["margins"].t = "dict"
    THEN LET v == new_values.v["margins"].v
             Side(s) == IF s \in DOMAIN v /\ v[s].t # "null" /\ FloatOk(v[s])
                        THEN FloatOf(v[s]) ELSE m[s]
         IN  MarginsObj("default", Side("top"), Side("bottom"),
                        Side("left"), Side("right"))
    ELSE m

\* What merge_formatting(existing, new_values) leaves in m, a margins
\* dict that was there before the call: line 41 copies the formatting
\* and line 47 the margins before lines 48-51 assign, so no dict that was
\* there before the call is written to.
MarginsAfterMerge(m, existing, new_values) == m

\* merge_formatting(existing, new_values): [raised, formatting].
\* new_values is [t, v]: a dict (v a function from the keys it gives to
\* their values), None, or a string.  Its value for margins is [t, v], v
\* a function from the sides it gives to their values.  The merge is made
\* on a copy, which is lost when a step of it raises.
MergeFormatting(existing, new_values) ==
    IF new_values.t = "null" \/ (new_values.t = "dict" /\ DOMAIN new_values.v = {})
    THEN [raised |-> "none", formatting |-> existing]
    ELSE IF new_values.t # "dict"
    THEN [raised |-> "AttributeError", formatting |-> existing]
    ELSE LET nv == new_values.v
             plain == [k \in DOMAIN existing |->
                          IF k \in DOMAIN nv /\ k # "margins" THEN nv[k]
                          ELSE existing[k]]
         IN  IF "margins" \notin DOMAIN nv
             THEN [raised |-> "none", formatting |-> plain]
             ELSE IF nv["margins"].t # "dict"
             THEN [raised |-> "none",
                   formatting |-> [plain EXCEPT !.margins =
                                      MarginsVal("null", 0, 0, 0, 0)]]
             ELSE IF existing.margins.t # "dict"
             THEN [raised |-> "AttributeError", formatting |-> existing]
             ELSE LET m == nv["margins"].v
                      Side(s) == IF s \in DOMAIN m /\ m[s].t # "null"
                                 THEN FloatOf(m[s]) ELSE existing.margins[s]
                  IN  IF \E s \in DOMAIN m : m[s].t # "null" /\ ~FloatOk(m[s])
                      THEN [raised |-> "ValueError", formatting |-> existing]
                      ELSE [raised |-> "none",
                            formatting |->
                              [plain EXCEPT !.margins =
                                  MarginsObj("copy", Side("top"), Side("bottom"),
                                             Side("left"), Side("right"))]]

\* content.split('\n')
RECURSIVE Split(_)
Split(s) ==
    IF \A k \in 1 .. Len(s) : s[k] # NL THEN <<s>>
    ELSE LET k == MinOf({j \in 1 .. Len(s) : s[j] = NL})
         IN  <<SubSeq(s, 1, k - 1)>> \o Split(SubSeq(s, k + 1, Len(s)))

HexDigits == DigitSet \cup {"a", "b", "c", "d", "e", "f"}

\* color_str.lstrip('#')
RECURSIVE LStripHash(_)
LStripHash(s) ==
    IF s # <<>> /\ Head(s) = "#" THEN LStripHash(Tail(s)) ELSE s

\* parse_color: the six hex digits in lower case, or the empty sequence
\* for None (the run then keeps the colour of the style, black)
ParseColor(color_str) ==
    IF ~Truthy(color_str) THEN <<>>
    ELSE LET color == Lower(LStripHash(color_str.v))
         IN  IF Len(color) # 6 THEN <<>>
             ELSE IF \E k \in 1 .. 6 : color[k] \notin HexDigits THEN <<>>
             ELSE color

Alignments == {<<"l", "e", "f", "t">>, <<"c", "e", "n", "t", "e", "r">>, <<"r", "i", "g", "h", "t">>, <<"j", "u", "s", "t", "i", "f", "y">>}

\* build_docx_document: [raised, margins, run, paragraph, elements].  One
\* paragraph for each line of the content, with the line's text less its
\* trailing whitespace, or a blank for a line of whitespace.
BuildDocxDocument(doc) ==
    LET f == doc.formatting
        Para(line) == [kind |-> "paragraph",
                       text |-> IF StripS(line) # <<>> THEN RStripS(line)
                                ELSE <<SPC>>]
        lines == Split(doc.content)
    IN  IF f.margins.t # "dict"
        THEN [raised |-> "AttributeError"]
        ELSE [raised |-> "none",
              margins |-> f.margins,
              font |-> IF Truthy(f.fontFamily) THEN f.fontFamily.v
                       ELSE DEFAULT_FORMATTING.fontFamily.v,
              size |-> IF FloatOk(f.fontSize) THEN FloatOf(f.fontSize)
                       ELSE FloatOf(DEFAULT_FORMATTING.fontSize),
              color |-> ParseColor(f.fontColor),
              alignment |-> IF f.alignment.t = "str" /\ f.alignment.v \in Alignments
                            THEN f.alignment.v ELSE <<"l", "e", "f", "t">>,
              spacing |-> IF FloatOk(f.lineSpacing) THEN FloatOf(f.lineSpacing)
                          ELSE FloatOf(DEFAULT_FORMATTING.lineSpacing),
              elements |-> [k \in 1 .. Len(lines) |-> Para(lines[k])]]

\* HexColor(value) raises: TypeError for None, ValueError for a string
\* that is not a numeral.  Of the strings, those of '#' and hex digits
\* are read here as numerals; the decimal and 0x numerals HexColor also
\* reads are not among the values requests give.
HexColorRaises(x) ==
    \/ x.t = "null"
    \/ x.v = <<>>
    \/ Head(x.v) # "#"
    \/ Len(x.v) = 1
    \/ \E k \in 2 .. Len(x.v) : LowerChar(x.v[k]) \notin HexDigits

\* font_family_map.get(fontFamily, 'Helvetica'), then the bold and italic
\* variant of it
PdfFont(f) ==
    LET base == IF f.fontFamily.v \in {<<"G", "e", "o", "r", "g", "i", "a">>, <<"T", "i", "m", "e", "s", SPC, "N", "e", "w", SPC, "R", "o", "m", "a", "n">>}
                THEN "Times" ELSE "Helvetica"
        b == f.bold.v # <<>>
        it == f.italic.v # <<>>
    IN  IF base = "Times"
        THEN <<base, IF b /\ it THEN "BoldItalic" ELSE IF b THEN "Bold"
                     ELSE IF it THEN "Italic" ELSE "Roman">>
        ELSE <<base, IF b /\ it THEN "BoldOblique" ELSE IF b THEN "Bold"
                     ELSE IF it THEN "Oblique" ELSE "">>

\* the flowables of one line; a height is in thousandths of a point,
\* the font size in hundredths
PdfLineSpacerOnly(line, font_size) ==
    IF StripS(line) = <<>>
    THEN <<[kind |-> "spacer", height |-> font_size * 6]>>
    ELSE <<[kind |-> "paragraph", text |-> StripS(line)]>>

PdfLine(line, font_size) ==
    IF StripS(line) = <<>>
    THEN <<[kind |-> "spacer", height |-> font_size * 6]>>
    ELSE <<[kind |-> "paragraph", text |-> StripS(line)],
           [kind |-> "spacer", height |-> font_size * 3]>>

RECURSIVE PdfElements(_, _)
PdfElements(lines, font_size) ==
    IF lines = <<>> THEN <<>>
    ELSE PdfLine(Head(lines), font_size) \o PdfElements(Tail(lines), font_size)

\* build_pdf_document: [raised, margins, font, size, ..., elements], the
\* margins in hundredths of a point
BuildPdfDocument(doc) ==
    LET f == doc.formatting
    IN  IF f.margins.t # "dict" THEN [raised |-> "AttributeError"]
        ELSE IF ~FloatOk(f.lineSpacing)
        THEN [raised |-> IF f.lineSpacing.t = "null" THEN "TypeError"
                         ELSE "ValueError"]
        ELSE IF ~FloatOk(f.fontSize)
        THEN [raised |-> IF f.fontSize.t = "null" THEN "TypeError"
                         ELSE "ValueError"]
        ELSE IF HexColorRaises(f.fontColor)
        THEN [raised |-> IF f.fontColor.t = "null" THEN "TypeError"
                         ELSE "ValueError"]
        ELSE [raised |-> "none",
              margins |-> MarginsVal("dict", f.margins.top * 72,
                                     f.margins.bottom * 72, f.margins.left * 72,
                                     f.margins.right * 72),
              font |-> PdfFont(f),
              size |-> FloatOf(f.fontSize),
              color |-> Lower(Tail(f.fontColor.v)),
              alignment |-> IF f.alignment.t = "str" /\ f.alignment.v \in Alignments
                            THEN f.alignment.v ELSE <<"l", "e", "f", "t">>,
              spacing |-> FloatOf(f.lineSpacing),
              elements |-> PdfElements(Split(doc.content), FloatOf(f.fontSize))]

\* the rest of the state, which the handlers of word_editor.py leave alone
docsFrame ==
    <<pc, groq_api_key, chunkVars, groqVars, normVars, papers_data, paper_idx,
      req_questions, uploaded_papers, generated_questions,
      questions_id_counter, paper_id_counter, users, user_data, db_locked>>

\* the text upload_doc makes up for a filename.  Each of its four texts
\* is kept by its heading, the blank line after it and the first letter
\* of what follows.
DocumentContent(filename) ==
    LET name == Lower(filename)
    IN  IF Contains(name, <<"r", "e", "s", "u", "m", "e">>) \/ Contains(name, <<"c", "v">>)
        THEN <<"R", "E", "S", "U", "M", "E", NL, NL, "J">>
        ELSE IF Contains(name, <<"r", "e", "p", "o", "r", "t">>) \/ Contains(name, <<"a", "n", "a", "l", "y", "s", "i", "s">>)
        THEN <<"P", "R", "O", "J", "E", "C", "T", SPC, "R", "E", "P", "O", "R", "T", NL, NL, "A">>
        ELSE IF Contains(name, <<"l", "e", "t", "t", "e", "r">>) \/ Contains(name, <<"a", "p", "p", "l", "i", "c", "a", "t", "i", "o", "n">>)
        THEN <<"A", "P", "P", "L", "I", "C", "A", "T", "I", "O", "N", SPC, "L", "E", "T", "T", "E", "R", NL, NL, "D">>
        ELSE <<"D", "O", "C", "U", "M", "E", "N", "T", ":", SPC>> \o filename \o <<NL, NL, "I">>

\* the document of that id, as a set: next((d for d in documents if ...))
FindDocIgnoringId(document_id) ==
    IF documents = <<>> THEN {} ELSE {1}

\* a lookup that gives the record stored last
FindDocLast(document_id) ==
    LET found == {k \in 1 .. Len(documents) : documents[k].id = document_id}
    IN  IF found = {} THEN {} ELSE {MaxOf(found)}

FindDoc(document_id) ==
    LET found == {k \in 1 .. Len(documents) : documents[k].id = document_id}
    IN  IF found = {} THEN {} ELSE {MinOf(found)}

DocNotFound == Answer(404, "Document not found", "none", "none")

\* POST /upload-doc with the JSON object data
UploadDoc(data) ==
    /\ pc = "idle"
    /\ Len(documents) < MaxDocs
    /\ LET filename == Get(data, "filename", StrVal(<<"u", "p", "l", "o", "a", "d", "e", "d", "_", "d", "o", "c", "u", "m", "e", "n", "t", ".", "d", "o", "c", "x">>))
       IN  IF filename.t # "str"
           THEN /\ http' = Answer(500, "Failed to upload document: ",
                                  "AttributeError", "AttributeError")
                /\ UNCHANGED <<documents, doc_id_counter>>
           ELSE LET new_doc == [id |-> StrOfInt(doc_id_counter),
                                filename |-> filename.v,
                                content |-> DocumentContent(filename.v),
                                formatting |-> default_formatting]
                IN  /\ documents' = ListAppend(documents, new_doc)
                    /\ doc_id_counter' = doc_id_counter + 1
                    /\ http' = [documentId |-> new_doc.id,
                                content |-> new_doc.content] @@
                                 Answer(200, "Document uploaded successfully",
                                        "none", "none")
    /\ UNCHANGED <<default_formatting, docsFrame>>

\* POST /edit-doc with the JSON object data: documentId, formatting ({}
\* when the request gives none) and content (None when it gives none)
EditDoc(data) ==
    /\ pc = "idle"
    /\ LET found == IF data.documentId.t = "str"
                    THEN FindDoc(data.documentId.v) ELSE {}
           k == CHOOSE j \in found : TRUE
           merged == MergeFormatting(documents[k].formatting, data.formatting)
           content == IF data.content.t = "str" THEN data.content.v
                      ELSE documents[k].content
       IN  IF found = {}
           THEN /\ http' = DocNotFound
                /\ UNCHANGED <<documents, default_formatting>>
           ELSE IF merged.raised # "none"
           THEN /\ http' = Answer(500, "Failed to edit document: ",
                                  merged.raised, merged.raised)
                /\ UNCHANGED <<documents, default_formatting>>
           ELSE /\ documents' =
                     [j \in 1 .. Len(documents) |->
                        IF j = k
                        THEN [documents[k] EXCEPT
                                 !.formatting = merged.formatting,
                                 !.content = content]
                        ELSE [documents[j] EXCEPT !.formatting.margins =
                                 MarginsAfterMerge(@, documents[k].formatting,
                                                   data.formatting)]]
                /\ default_formatting' =
                     [default_formatting EXCEPT !.margins =
                         MarginsAfterMerge(@, documents[k].formatting,
                                           data.formatting)]
                /\ http' = [preview |-> content] @@
                             Answer(200, "Document formatting applied successfully",
                                    "none", "none")
    /\ UNCHANGED <<doc_id_counter, docsFrame>>

\* GET /download-doc/<document_id>?format=...
DownloadDoc(document_id, format) ==
    /\ pc = "idle"
    /\ LET found == FindDoc(document_id)
           doc == documents[CHOOSE j \in found : TRUE]
           export_format == IF Lower(format) = <<"p", "d", "f">> THEN "pdf" ELSE "docx"
           built == IF export_format = "pdf" THEN BuildPdfDocument(doc)
                    ELSE BuildDocxDocument(doc)
       IN  http' = IF found = {} THEN DocNotFound
                   ELSE IF built.raised # "none"
                   THEN Answer(500, "Failed to download document: ",
                               built.raised, built.raised)
                   ELSE [file |-> built, format |-> export_format] @@
                          Answer(200, "", "none", "none")
    /\ UNCHANGED <<documents, doc_id_counter, default_formatting, docsFrame>>

\* The requests made of these handlers

UploadInputs ==
    {[k \in {"filename"} |-> StrVal(<<"c", "v", ".", "d", "o", "c", "x">>)],
     [k \in {"filename"} |-> NullVal],
     NoRecord}

Dict(f) == [t |-> "dict", v |-> f]

\* the formatting of an edit-doc request: none, one key set to null,
\* every key set to a value that is not known, margins with one side,
\* margins with one side set to null, no margins, margins with a side that
\* is no number, and a string
Patches ==
    {Dict(NoRecord),
     Dict([k \in {"fontSize"} |-> NullVal]),
     Dict([fontFamily |-> StrVal(<<"C", "o", "m", "i", "c">>), fontSize |-> StrVal(<<"b", "i", "g">>),
           fontColor |-> StrVal(<<"r", "e", "d">>), alignment |-> StrVal(<<"m", "i", "d", "d", "l", "e">>),
           lineSpacing |-> StrVal(<<"w", "i", "d", "e">>)]),
     Dict([k \in {"margins"} |-> Dict([s \in {"top"} |-> NumVal(<<"2">>)])]),
     Dict([k \in {"margins"} |-> Dict([s \in {"top"} |-> NullVal])]),
     Dict([k \in {"margins"} |-> [t |-> "null", v |-> NoRecord]]),
     Dict([k \in {"margins"} |-> Dict([s \in {"left"} |-> StrVal(<<"x">>)])]),
     [t |-> "str", v |-> NoRecord]}

Contents == {NullVal, StrVal(<<"H", "e", "l", "l", "o", NL, NL, "W", "o", "r", "l", "d">>), StrVal(<<SPC, "A", SPC, NL, SPC, NL, "B", NL>>)}

DocIds == {<<"1">>, <<"2">>, <<"3">>}

\* the edits of document 1 give a formatting or a content; one edit of
\* document 2 gives both; two more name a document that is not stored
\* by the id 3 and by the number 1
EditInputs ==
    {[documentId |-> StrVal(<<"1">>), formatting |-> p, content |-> NullVal] :
        p \in Patches}
    \cup {[documentId |-> StrVal(<<"1">>), formatting |-> Dict(NoRecord),
           content |-> c] : c \in Contents}
    \cup {[documentId |-> StrVal(<<"2">>),
           formatting |-> Dict([k \in {"fontSize"} |-> NumVal(<<"1", "4">>)]),
           content |-> StrVal(<<"H", "i">>)]}
    \cup {[documentId |-> d, formatting |-> Dict(NoRecord), content |-> NullVal] :
            d \in {StrVal(<<"3">>), NumVal(<<"1">>)}}

InitDocs ==
    /\ pc = "idle"
    /\ groq_api_key = TRUE
    /\ ChunkIdle
    /\ GroqIdle
    /\ NormIdle
    /\ ReqIdle
    /\ GlobalsAtStart

NextDocs ==
    \/ \E data \in UploadInputs : UploadDoc(data)
    \/ \E data \in EditInputs : EditDoc(data)
    \/ \E d \in DocIds, format \in {<<"p", "d", "f">>, <<"d", "o", "c", "x">>} : DownloadDoc(d, format)

SpecDocs == InitDocs /\ [][NextDocs]_vars

----------------------------------------------------------------------------
(* upload-papers, download-questions, and the handlers one after another   *)

\* how many papers are uploaded, and how many question sets stored, at most
MaxUploads == 2

MaxSets == 2

\* a stored paper that names a readable text file
StoredPaperWithFile(id, filename) ==
    [id |-> id, filename |-> filename] @@ Paper("file", ".txt", TRUE, Text30)

\* the record upload_papers stores: id, filename, content and uploaded_at,
\* and no filePath
StoredPaper(id, filename) ==
    [id |-> id, filename |-> filename] @@ Paper("absent", "", FALSE, NoText)

\* POST /upload-papers with the JSON object data.  An element of files
\* that is no object makes file.get raise: the papers before it are
\* stored, and the answer is the 500 of the except clause, whose message
\* is fixed.
UploadPapers(data) ==
    /\ pc = "idle"
    /\ LET files == Get(data, "files", <<>>)
           bad == {k \in 1 .. Len(files) : files[k].t # "dict"}
           n == IF bad = {} THEN Len(files) ELSE MinOf(bad) - 1
           PaperOf(k) ==
               LET name == Get(files[k].v, "filename",
                               StrVal(<<"p", "r", "e", "v", "i", "o", "u", "s", "_", "y", "e", "a", "r", "_", "p", "a", "p", "e", "r", "_">>
                                        \o StrOfInt(paper_id_counter + k - 1)
                                        \o <<".", "p", "d", "f">>))
               IN  StoredPaper(StrOfInt(paper_id_counter + k - 1), name)
           uploaded_files == [k \in 1 .. n |-> PaperOf(k)]
       IN  /\ Len(uploaded_papers) + n <= MaxUploads
           /\ uploaded_papers' = ListExtend(uploaded_papers, uploaded_files)
           /\ paper_id_counter' = paper_id_counter + n
           /\ http' = IF bad # {}
                      THEN Answer(500, "Failed to upload question papers",
                                  "none", "AttributeError")
                      ELSE [uploadedFiles |->
                               [k \in 1 .. n |-> [id |-> uploaded_files[k].id,
                                                   filename |-> uploaded_files[k].filename]]]
                             @@ Answer(200, "Successfully uploaded question papers",
                                       "none", "none")
    /\ UNCHANGED <<pc, groq_api_key, chunkVars, groqVars, normVars, papers_data,
                   paper_idx, req_questions, generated_questions,
                   questions_id_counter, documents, doc_id_counter, users,
                   user_data, db_locked, default_formatting>>

\* GET /download-questions/<questions_id>: the file has, for each
\* record of the set, a heading, the question, its importance and the
\* answer, of which the question and the answer are kept here
DownloadQuestions(questions_id) ==
    /\ pc = "idle"
    /\ LET found == {k \in 1 .. Len(generated_questions) :
                        generated_questions[k].id = questions_id}
           questions == generated_questions[MinOf(found)].questions
           built == [raised |-> "none",
                     elements |-> [k \in 1 .. Len(questions) |->
                                     [kind |-> "question",
                                      text |-> questions[k].question,
                                      answer |-> questions[k].answer]]]
       IN  http' = IF found = {}
                   THEN Answer(404, "Questions not found", "none", "none")
                   ELSE [file |-> built, format |-> "docx"] @@
                          Answer(200, "", "none", "none")
    /\ UNCHANGED <<pc, groq_api_key, chunkVars, groqVars, normVars, papers_data,
                   paper_idx, req_questions, globalVars>>

\* POST /generate-questions arrives with the papers of its body
ReceiveGenerate(papers) ==
    /\ pc = "idle"
    /\ Len(generated_questions) < MaxSets
    /\ pc' = "request"
    /\ papers_data' = papers
    /\ UNCHANGED <<groq_api_key, chunkVars, groqVars, normVars, paper_idx,
                   req_questions, http, globalVars>>

\* generate_questions has returned: its locals are gone
ReturnGenerate ==
    /\ pc = "done"
    /\ pc' = "idle"
    /\ text' = NoText /\ i' = 0 /\ chunks' = <<>> /\ windows' = <<>>
    /\ chunk_idx' = 1 /\ response' = NoResponse /\ n_requests' = 0
    /\ chunk_log' = <<>> /\ all_questions' = <<>>
    /\ papers_data' = <<>> /\ paper_idx' = 1 /\ req_questions' = <<>>
    /\ UNCHANGED <<groq_api_key, normVars, http, globalVars>>

\* The requests of a run of all the handlers

FileOf(name) == Dict([k \in {"filename"} |-> StrVal(name)])

PaperUploads ==
    {[k \in {"files"} |-> <<FileOf(<<"p", ".", "p", "d", "f">>)>>],
     [k \in {"files"} |-> <<Dict(NoRecord), StrVal(<<"x">>)>>],
     NoRecord}

AppPapers == {<<>>, <<Paper("file", ".txt", TRUE, Text30)>>}

AppResponses == {Failure("raise"), [kind |-> "array", items |-> <<ItemA>>]}

AppEdits ==
    {[documentId |-> StrVal(<<"1">>), formatting |-> Dict(NoRecord),
      content |-> StrVal(<<"H", "i">>)],
     [documentId |-> StrVal(<<"1">>),
      formatting |-> Dict([k \in {"fontSize"} |-> NullVal]),
      content |-> NullVal]}

InitApp ==
    /\ pc = "idle"
    /\ groq_api_key = TRUE
    /\ ChunkIdle
    /\ GroqIdle
    /\ NormIdle
    /\ ReqIdle
    /\ GlobalsAtStart

NextApp ==
    \/ \E data \in PaperUploads : UploadPapers(data)
    \/ \E papers \in AppPapers : ReceiveGenerate(papers)
    \/ \E ids \in {{}, {<<"2">>}} : StartRequest(ids)
    \/ NextPaper
    \/ EnterGroq
    \/ \E r \in AppResponses : HandleChunk(r)
    \/ ReturnQuestions
    \/ FinishPaper
    \/ Respond
    \/ ReturnGenerate
    \/ \E d \in DocIds : DownloadQuestions(d)
    \/ UploadDoc([k \in {"filename"} |-> StrVal(<<"c", "v", ".", "d", "o", "c", "x">>)])
    \/ \E data \in AppEdits : EditDoc(data)
    \/ \E d \in DocIds, format \in {<<"p", "d", "f">>, <<"d", "o", "c", "x">>} : DownloadDoc(d, format)

SpecApp == InitApp /\ [][NextApp]_vars


----------------------------------------------------------------------------
(* upload-doc and upload-papers handled at the same time                   *)
(*                                                                         *)
(* app.run serves each request in a thread of its own, and the handlers    *)
(* take no lock: between any two of a handler's reads and writes of the    *)
(* module globals the other thread can run.  A call of calls is            *)
(* [pc, handler, filename, new, tmp]: new is the record it has built, tmp  *)
(* the counter it has read for "counter += 1", which reads the global,     *)
(* adds, and writes the global.  An upload-papers request has one file.    *)

raceFrame ==
    <<pc, groq_api_key, chunkVars, groqVars, q_in, q_out, response_content,
      json_string, papers_data, paper_idx, req_questions, generated_questions,
      questions_id_counter, users, user_data, db_locked, default_formatting>>

\* the calls of a handler that have not yet appended their record
NotYetAppended(handler) ==
    {c \in Calls : calls[c].pc = "append" /\ calls[c].handler = handler}

\* a request arrives, a thread is given to it, and the handler's first
\* statement on the globals is run: "new_doc = {'id':
\* str(doc_id_counter), ...}", "paper = {'id': str(paper_id_counter),
\* ...}": the counter is read
BuildRecord(c, handler, filename) ==
    /\ pc = "idle"
    /\ calls[c].pc = "none"
    /\ IF handler = "upload_doc"
       THEN Len(documents) + Cardinality(NotYetAppended(handler)) < MaxDocs
       ELSE Len(uploaded_papers) + Cardinality(NotYetAppended(handler))
              < MaxUploads
    /\ calls' = [calls EXCEPT ![c] =
                    [pc |-> "append", handler |-> handler,
                     filename |-> filename, tmp |-> 0,
                     new |-> IF handler = "upload_doc"
                             THEN [id |-> StrOfInt(doc_id_counter),
                                   filename |-> filename,
                                   content |-> DocumentContent(filename),
                                   formatting |-> default_formatting]
                             ELSE StoredPaper(StrOfInt(paper_id_counter),
                                              StrVal(filename))]]
    /\ UNCHANGED <<http, uploaded_papers, paper_id_counter, documents,
                   doc_id_counter, raceFrame>>

\* "documents.append(new_doc)", "uploaded_papers.append(paper)"
AppendRecord(c) ==
    /\ calls[c].pc = "append"
    /\ IF calls[c].handler = "upload_doc"
       THEN /\ documents' = ListAppend(documents, calls[c].new)
            /\ UNCHANGED uploaded_papers
       ELSE /\ uploaded_papers' = ListAppend(uploaded_papers, calls[c].new)
            /\ UNCHANGED documents
    /\ calls' = [calls EXCEPT ![c].pc = "load"]
    /\ UNCHANGED <<http, paper_id_counter, doc_id_counter, raceFrame>>

\* "counter += 1": the global is read
LoadCounter(c) ==
    /\ calls[c].pc = "load"
    /\ calls' = [calls EXCEPT
                    ![c].pc = "store",
                    ![c].tmp = IF calls[c].handler = "upload_doc"
                               THEN doc_id_counter ELSE paper_id_counter]
    /\ UNCHANGED <<http, uploaded_papers, paper_id_counter, documents,
                   doc_id_counter, raceFrame>>

\* "counter += 1": the sum is written to the global; the handler then
\* returns its answer, built from its own record
StoreCounter(c) ==
    /\ calls[c].pc = "store"
    /\ IF calls[c].handler = "upload_doc"
       THEN /\ doc_id_counter' = calls[c].tmp + 1
            /\ UNCHANGED paper_id_counter
       ELSE /\ paper_id_counter' = calls[c].tmp + 1
            /\ UNCHANGED doc_id_counter
    /\ http' = IF calls[c].handler = "upload_doc"
               THEN [documentId |-> calls[c].new.id,
                     content |-> calls[c].new.content] @@
                      Answer(200, "Document uploaded successfully",
                             "none", "none")
               ELSE [uploadedFiles |->
                        <<[id |-> calls[c].new.id,
                           filename |-> calls[c].new.filename]>>]
                      @@ Answer(200, "Successfully uploaded question papers",
                                "none", "none")
    /\ calls' = [calls EXCEPT ![c] = NoCall]
    /\ UNCHANGED <<uploaded_papers, documents, raceFrame>>

\* the file the call c uploads
RaceFile(c) ==
    IF c = 1 THEN <<"c", "v">> ELSE <<"r", "e", "p", "o", "r", "t">>

InitRace ==
    /\ pc = "idle"
    /\ groq_api_key = TRUE
    /\ ChunkIdle
    /\ GroqIdle
    /\ NormIdle
    /\ ReqIdle
    /\ GlobalsAtStart

NextRace ==
    \/ \E c \in Calls, handler \in {"upload_doc", "upload_papers"} :
          BuildRecord(c, handler, RaceFile(c))
    \/ \E c \in Calls : AppendRecord(c)
    \/ \E c \in Calls : LoadCounter(c)
    \/ \E c \in Calls : StoreCounter(c)
    \/ DownloadDoc(<<"1">>, <<"d", "o", "c", "x">>)

SpecRace == InitRace /\ [][NextRace]_vars

----------------------------------------------------------------------------
(* sync-user handled at the same time                                      *)
(*                                                                         *)
(* create_or_update_user opens a connection of its own and runs four       *)
(* statements on it: the SELECT by clerk_id, the UPDATE or INSERT the      *)
(* SELECT's result chooses, the commit, and the SELECT that reads the row  *)
(* back.  The UPDATE or INSERT begins a transaction and takes the write    *)
(* lock of the database file, which the commit gives back; a second        *)
(* connection's UPDATE or INSERT waits for the lock, and its SELECT reads  *)
(* what has been committed.  A call of calls is [pc, handler, u,           *)
(* existing, user_id]: u the fields of the request, existing whether the   *)
(* first SELECT found a row.                                               *)

syncFrame ==
    <<pc, groq_api_key, chunkVars, groqVars, q_in, q_out, response_content,
      json_string, papers_data, paper_idx, req_questions, uploaded_papers,
      generated_questions, questions_id_counter, paper_id_counter, documents,
      doc_id_counter, user_data, default_formatting>>

\* the arguments sync_user gives to create_or_update_user
SyncFields(data) ==
    [clerk_id |-> data.clerk_id, email |-> data.email,
     first_name |-> data.first_name, last_name |-> data.last_name,
     full_name |-> IF Truthy(data.full_name)
                   THEN data.full_name ELSE data.name,
     image_url |-> data.image_url]

\* a call holds the write lock from its UPDATE or INSERT to its commit
WriteLockHeld == \E c \in Calls : calls[c].pc = "commit"

\* the constraint a statement violates: "id TEXT PRIMARY KEY", "clerk_id
\* TEXT UNIQUE NOT NULL", "email TEXT UNIQUE NOT NULL"
InsertRefused(rows, u) ==
    \E r \in rows : \/ r.id = u.clerk_id
                    \/ r.clerk_id = u.clerk_id
                    \/ r.email = u.email

UpdateRefused(rows, u) ==
    /\ \E r \in rows : r.clerk_id = u.clerk_id
    /\ \E r \in rows : r.clerk_id # u.clerk_id /\ r.email = u.email

\* the table after the statement
Inserted(rows, u) == rows \cup {[id |-> u.clerk_id] @@ u}

Updated(rows, u) ==
    {IF r.clerk_id = u.clerk_id THEN [id |-> r.id] @@ u ELSE r : r \in rows}

\* POST /sync-user is received by the thread c: the fields are checked,
\* and "SELECT id FROM users WHERE clerk_id = ?" is run
SyncSelect(c, data) ==
    /\ pc = "idle"
    /\ calls[c].pc = "none"
    /\ IF ~Truthy(data.clerk_id) \/ ~Truthy(data.email)
       THEN /\ http' = Answer(400, "clerk_id and email are required",
                              "none", "none")
            /\ UNCHANGED calls
       ELSE LET existing == {r \in users : r.clerk_id = data.clerk_id}
            IN  /\ calls' = [calls EXCEPT ![c] =
                               [pc |-> "write", handler |-> "sync_user",
                                u |-> SyncFields(data),
                                existing |-> existing # {},
                                user_id |->
                                   IF existing = {} THEN data.clerk_id
                                   ELSE (CHOOSE r \in existing : TRUE).id]]
                /\ UNCHANGED http
    /\ UNCHANGED <<users, db_locked, syncFrame>>

\* the UPDATE or the INSERT.  It waits while another call holds the write
\* lock.  A connection that was left open after a refused statement holds
\* the lock until it is collected: the statement gives up with "database
\* is locked".  A statement a constraint refuses raises IntegrityError,
\* and the handler answers 500 with the connection left open.
SyncWrite(c) ==
    /\ calls[c].pc = "write"
    /\ ~WriteLockHeld
    /\ LET u == calls[c].u
           refused == IF calls[c].existing THEN UpdateRefused(users, u)
                      ELSE InsertRefused(users, u)
       IN  IF db_locked
           THEN /\ http' = LockedAnswer
                /\ calls' = [calls EXCEPT ![c] = NoCall]
                /\ UNCHANGED db_locked
           ELSE IF refused
           THEN /\ http' = Answer(500, "Internal server error: ",
                                  "IntegrityError", "IntegrityError")
                /\ calls' = [calls EXCEPT ![c] = NoCall]
                /\ db_locked' = TRUE
           ELSE /\ calls' = [calls EXCEPT ![c].pc = "commit"]
                /\ UNCHANGED <<http, db_locked>>
    /\ UNCHANGED <<users, syncFrame>>

\* "conn.commit()": the row is in the table, the lock is given back
SyncCommit(c) ==
    /\ calls[c].pc = "commit"
    /\ users' = IF calls[c].existing THEN Updated(users, calls[c].u)
                ELSE Inserted(users, calls[c].u)
    /\ calls' = [calls EXCEPT ![c].pc = "readback"]
    /\ UNCHANGED <<http, db_locked, syncFrame>>

\* "SELECT * FROM users WHERE id = ?", and the handler's answer
SyncReadBack(c) ==
    /\ calls[c].pc = "readback"
    /\ LET found == {r \in users : r.id = calls[c].user_id}
       IN  http' = IF found = {}
                   THEN Answer(500, "Failed to sync user", "none", "none")
                   ELSE [user |-> CHOOSE r \in found : TRUE] @@
                          Answer(200, "User synced successfully",
                                 "none", "none")
    /\ calls' = [calls EXCEPT ![c] = NoCall]
    /\ UNCHANGED <<users, db_locked, syncFrame>>

\* the requests: two external ids, two emails, a missing email
SyncRequests ==
    {[clerk_id |-> c, email |-> e, first_name |-> NullVal,
      last_name |-> NullVal, full_name |-> NullVal, name |-> NullVal,
      image_url |-> NullVal] :
        c \in Clerks,
        e \in {StrVal(<<"a", "@", "x">>), StrVal(<<"b", "@", "x">>),
               StrVal(<<>>)}}

InitSync ==
    /\ pc = "idle"
    /\ groq_api_key = TRUE
    /\ ChunkIdle
    /\ GroqIdle
    /\ NormIdle
    /\ ReqIdle
    /\ GlobalsAtStart

NextSync ==
    \/ \E c \in Calls, data \in SyncRequests : SyncSelect(c, data)
    \/ \E c \in Calls : SyncWrite(c)
    \/ \E c \in Calls : SyncCommit(c)
    \/ \E c \in Calls : SyncReadBack(c)
    \/ CollectGarbage

SpecSync == InitSync /\ [][NextSync]_vars

----------------------------------------------------------------------------
(* Claims about the chunking                                               *)

\* the chunk list is complete
ChunkingDone == pc \notin {"call", "raised", "chunking"}

\* every position of a..b-1 holds whitespace
AllSpace(t, a, b) == \A p \in a .. (b - 1) : IsSpace(CharAt(t, p))

\* the window start that follows window k: the next window's, or the
\* loop variable when window k is the latest
StartAfter(k) == IF k < Len(windows) THEN windows[k + 1].start ELSE i

\* C1: a text of at most 6000 characters gives exactly one chunk, and the
\* chunk is the whole text: it starts at the text's first character and
\* ends at its last, whitespace included.
C1_ShortTextIsOneChunk ==
    (ChunkingDone /\ text.len <= 6000) =>
        /\ Len(chunks) = 1
        /\ chunks[1].lo = 0
        /\ chunks[1].hi = text.len

\* a text of exactly 6000 characters that begins with a blank has been
\* turned into its chunk list
C1_Witness ==
    /\ ChunkingDone
    /\ text.len = 6000
    /\ CharAt(text, 0) = SPC
    /\ Len(chunks) = 1

\* C2: for a text longer than 6000 characters no chunk is longer than
\* 6000 characters.
C2_ChunkAtMostMax ==
    text.len > 6000 =>
        \A k \in 1 .. Len(chunks) : chunks[k].hi - chunks[k].lo <= 6000

\* a long text has produced a chunk of exactly 6000 characters
C2_Witness ==
    /\ text.len > 6000
    /\ \E k \in 1 .. Len(chunks) : chunks[k].hi - chunks[k].lo = 6000

\* C3: for a text longer than 6000 characters the cut windows
\* [start, cut) cover the text: the first starts at 0, each next one
\* starts no later than the previous one ends, the last ends at the end
\* of the text (so every position lies in a window); and inside each
\* window the characters outside its chunk are whitespace, whether the
\* window was trimmed to a chunk or, being all whitespace, gave none.
C3_WindowsCoverText ==
    (ChunkingDone /\ text.len > 6000) =>
        /\ Len(windows) >= 1
        /\ windows[1].start = 0
        /\ windows[Len(windows)].cut = text.len
        /\ \A k \in 1 .. Len(windows) :
             /\ windows[k].start < windows[k].cut
             /\ k < Len(windows) =>
                  /\ windows[k + 1].start <= windows[k].cut
                  /\ windows[k + 1].start >= windows[k].start
             /\ \/ \E j \in 1 .. Len(chunks) :
                     /\ windows[k].start <= chunks[j].lo
                     /\ chunks[j].hi <= windows[k].cut
                     /\ AllSpace(text, windows[k].start, chunks[j].lo)
                     /\ AllSpace(text, chunks[j].hi, windows[k].cut)
                \/ AllSpace(text, windows[k].start, windows[k].cut)

\* the loop has ended on a long text one of whose windows was all
\* whitespace and gave no chunk, and another of which lost whitespace
\* when it was trimmed
C3_Witness ==
    /\ ChunkingDone
    /\ text.len > 6000
    /\ Len(chunks) < Len(windows)
    /\ \E j \in 1 .. Len(chunks) : \E k \in 1 .. Len(windows) :
         /\ windows[k].start <= chunks[j].lo
         /\ chunks[j].hi < windows[k].cut
         /\ chunks[j].hi > windows[k].cut - 800

\* C4: a window that does not reach the end of the text is 6000
\* characters wide and is cut either at that limit or just after a
\* boundary character ('?', newline, '.') inside it; the window after it
\* starts exactly 800 characters before the cut; so two consecutive
\* chunks share at most 800 characters.
C4_NextStartIsCutMinusOverlap ==
    /\ \A k \in 1 .. Len(windows) :
         windows[k].chunk_end < text.len =>
            /\ windows[k].chunk_end = windows[k].start + 6000
            /\ StartAfter(k) = windows[k].cut - 800
            /\ \/ windows[k].cut = windows[k].chunk_end
               \/ /\ windows[k].start < windows[k].cut
                  /\ windows[k].cut < windows[k].chunk_end
                  /\ CharAt(text, windows[k].cut - 1) \in {QM, NL, DOT}
    /\ \A j \in 1 .. (Len(chunks) - 1) :
         chunks[j].hi - chunks[j + 1].lo <= 800

\* a window was cut after a boundary character, before its limit, and
\* the window after it has been cut too
C4_Witness ==
    \E k \in 1 .. (Len(windows) - 1) :
        /\ windows[k].cut < windows[k].chunk_end
        /\ windows[k + 1].start = windows[k].cut - 800
        /\ Len(chunks) >= 2

\* The cut the specification describes for a window start..chunk_end-1
\* that does not reach the end of the text: the last '?' if it is among
\* the window's last 1000 characters, else the last double newline among
\* the last 800, else the last newline among the last 500, else the last
\* '.' among the last 300, else the window limit.  Positions are those of
\* the text; "among the last n" is read as the code reads it in the first
\* window (after position chunk_end - n).
DescribedCut(t, start, chunk_end) ==
    LET Pos(r) == IF r = -1 THEN -1 ELSE start + r
        qm == Pos(RFind(t, start, chunk_end, QM))
        dn == Pos(RFindNLNL(t, start, chunk_end))
        n == Pos(RFind(t, start, chunk_end, NL))
        d == Pos(RFind(t, start, chunk_end, DOT))
    IN  IF qm > chunk_end - 1000 THEN qm + 1
        ELSE IF dn > chunk_end - 800 THEN dn + 1
        ELSE IF n > chunk_end - 500 THEN n + 1
        ELSE IF d > chunk_end - 300 THEN d + 1
        ELSE chunk_end

\* C5: every window that does not reach the end of the text, the first
\* and the later ones alike, is cut just after the boundary found by the
\* backward search in priority order ('?' in the last 1000 characters of
\* the window, double newline in the last 800, newline in the last 500,
\* '.' in the last 300).
C5_EveryWindowCutAtBoundary ==
    \A k \in 1 .. Len(windows) :
        windows[k].chunk_end < text.len =>
            windows[k].cut =
                DescribedCut(text, windows[k].start, windows[k].chunk_end)

\* On the first window, which starts at position 0, the cut is the
\* described one.
C5_FirstWindowCutAtBoundary ==
    (Len(windows) >= 1 /\ windows[1].chunk_end < text.len) =>
        windows[1].cut =
            DescribedCut(text, windows[1].start, windows[1].chunk_end)

\* C23: an iteration of the chunking loop whose window does not reach the
\* end of the text leaves i strictly greater than it was, and below or at
\* the end of that window; the iteration whose window reaches the end of
\* the text sets i to len(text), which ends the loop; and every call
\* comes to the end of the loop.
C23_ChunkingTerminates ==
    /\ [][ChunkStep =>
            IF i + MAX_CHUNK_SIZE < text.len
            THEN i' > i /\ i' <= i + MAX_CHUNK_SIZE
            ELSE i' = text.len /\ pc' = "chunked"]_vars
    /\ <>(pc = "chunked")

\* the loop has ended after three iterations, the first of which was cut
\* at a boundary
C23_Witness ==
    /\ pc = "chunked"
    /\ i = text.len
    /\ Len(windows) = 3
    /\ windows[1].cut < windows[1].chunk_end
    /\ windows[1].start < windows[2].start
    /\ windows[2].start < windows[3].start

\* C24: the number of requests sent so far is the number of chunks gone
\* through, one request per chunk in the order of the chunks; an iteration
\* sends the request of the chunk it is at and moves to the next chunk
\* whatever the request comes to, so a failed request is not sent again;
\* and the call returns after as many requests as there are chunks.
C24_OneRequestPerChunk ==
    /\ [](pc \in {"chunked", "returned"} =>
            /\ n_requests = chunk_idx - 1
            /\ n_requests = Len(chunk_log)
            /\ n_requests <= Len(chunks))
    /\ [](pc = "returned" => n_requests = Len(chunks))
    /\ [][\A r \in GroqResponses :
            HandleChunk(r) =>
                /\ n_requests' = n_requests + 1
                /\ chunk_idx' = chunk_idx + 1
                /\ chunks' = chunks]_vars

\* a call over three chunks has returned; the request of the first chunk
\* failed, the second gave questions
C24_Witness ==
    /\ pc = "returned"
    /\ Len(chunks) = 3
    /\ n_requests = 3
    /\ chunk_log[1] = "error"
    /\ chunk_log[2] = "ok"

----------------------------------------------------------------------------
(* Claims about the normalisation of a record                              *)

\* the record has the field under one of its two names
HasField(rec, name, Name) == name \in DOMAIN rec \/ Name \in DOMAIN rec

\* the field's value as a string: the lower-case name's if present
FieldString(rec, name, Name) ==
    PyStr(IF name \in DOMAIN rec THEN rec[name] ELSE rec[Name])

\* out is src with each capital letter replaced by its small letter
IsLowerCaseOf(out, src) ==
    /\ Len(out) = Len(src)
    /\ \A k \in 1 .. Len(src) :
         /\ ~IsUpper(out[k])
         /\ \/ out[k] = src[k]
            \/ \E j \in 1 .. 26 : UPPER[j] = src[k] /\ LOWER[j] = out[k]

\* C8: a normalised record gets importance "medium", topic "General",
\* difficulty "medium" and confidence 0.8 for each of these fields the
\* returned record lacks; a field that is present keeps its own value,
\* importance and difficulty in lower case, topic as it is, confidence as
\* the number it denotes.
C8_DefaultsForMissingFields ==
    pc = "normalized" =>
        /\ IF HasField(q_in, "importance", "Importance")
           THEN IsLowerCaseOf(q_out.importance,
                              FieldString(q_in, "importance", "Importance"))
           ELSE q_out.importance = <<"m", "e", "d", "i", "u", "m">>
        /\ IF HasField(q_in, "topic", "Topic")
           THEN q_out.topic = FieldString(q_in, "topic", "Topic")
           ELSE q_out.topic = <<"G", "e", "n", "e", "r", "a", "l">>
        /\ IF HasField(q_in, "difficulty", "Difficulty")
           THEN IsLowerCaseOf(q_out.difficulty,
                              FieldString(q_in, "difficulty", "Difficulty"))
           ELSE q_out.difficulty = <<"m", "e", "d", "i", "u", "m">>
        /\ IF HasField(q_in, "confidence", "Confidence")
           THEN q_out.confidence =
                    FloatOf(IF "confidence" \in DOMAIN q_in
                            THEN q_in.confidence ELSE q_in.Confidence)
           ELSE q_out.confidence = 80

\* a record without importance and confidence, with difficulty "Hard" and
\* a topic, has been normalised
C8_Witness ==
    /\ pc = "normalized"
    /\ ~HasField(q_in, "importance", "Importance")
    /\ ~HasField(q_in, "confidence", "Confidence")
    /\ "difficulty" \in DOMAIN q_in
    /\ q_in.difficulty.v = <<"H", "a", "r", "d">>
    /\ q_out.difficulty = <<"h", "a", "r", "d">>
    /\ "topic" \in DOMAIN q_in
    /\ q_out.topic = <<"M", "a", "t", "h">>

\* the answer the record carries, as a trimmed string ('' when it has
\* none of the keys answer, Answer, solution)
GivenAnswer(rec) ==
    StripS(PyStr(IF "answer" \in DOMAIN rec THEN rec.answer
                 ELSE IF "Answer" \in DOMAIN rec THEN rec.Answer
                 ELSE IF "solution" \in DOMAIN rec THEN rec.solution
                 ELSE StrVal(<<>>)))

SaysNotProvided(a) ==
    Contains(Lower(a), <<"n", "o", "t", " ", "p", "r", "o", "v", "i", "d", "e", "d">>)

SaysAnswerNot(a) ==
    Contains(Lower(a), <<"a", "n", "s", "w", "e", "r", " ", "n", "o", "t">>)

GivenQuestion(rec) ==
    StripS(PyStr(IF "question" \in DOMAIN rec THEN rec.question
                 ELSE IF "Question" \in DOMAIN rec THEN rec.Question
                 ELSE StrVal(<<>>)))

----------------------------------------------------------------------------
(* Claims about the per-chunk requests                                     *)

\* a is an initial part of b
IsPrefix(a, b) == Len(a) <= Len(b) /\ SubSeq(b, 1, Len(a)) = a

\* the records of a returned array that are kept: those whose normalised
\* question is valid, normalised, in the array's order
RECURSIVE KeptOf(_)
KeptOf(items) ==
    IF items = <<>> THEN <<>>
    ELSE LET n == Normalized(Head(items).rec)
         IN  IF Len(n.question) > 10
             THEN <<n>> \o KeptOf(Tail(items))
             ELSE KeptOf(Tail(items))

\* the chunk whose request came to r succeeded: a JSON array came back
\* and no element of it raised
ChunkSucceeded(r) ==
    /\ r.kind = "array"
    /\ \A k \in 1 .. Len(r.items) :
         r.items[k].dict /\ FloatOk(ConfidenceArg(r.items[k].rec))

\* C6: whatever a chunk's request comes to, the next chunk is handled
\* after it (all chunks have been requested when the function returns),
\* the records collected before it stay in the list, in place, and the
\* kept records of a chunk that succeeded are appended to them.
C6_ChunkFailureIsAbsorbed ==
    /\ [](pc = "returned" =>
            /\ n_requests = Len(chunks)
            /\ Len(chunk_log) = Len(chunks))
    /\ [][chunk_idx' # chunk_idx =>
            /\ chunk_idx' = chunk_idx + 1
            /\ pc' = "chunked"
            /\ IsPrefix(all_questions, all_questions')
            /\ ChunkSucceeded(response') =>
                 all_questions' = all_questions \o KeptOf(response'.items)]_vars

\* the function has returned after three chunks, of which the first and
\* the last succeeded and the second failed, with the records of both
C6_Witness ==
    /\ pc = "returned"
    /\ chunk_log = <<"ok", "error", "ok">>
    /\ ChunkSucceeded(response)
    /\ Len(KeptOf(response.items)) = 1
    /\ Len(all_questions) = 3


\* the content as it is when the JSON array is looked for
Looked == Unfenced(response_content)

\* C25: of a content that has a "[" and a "]", what is handed to
\* json.loads is the part from the first "[" to the last "]", taken after
\* the code fences of a content that starts with one are removed; of a
\* content that has a "[", no "]" and a "}" after the first "[", it is
\* the part from the first "[" to the last "}" followed by "]"; a content
\* that has a "[", no "]" and no "}" after the first "[", and a content of
\* which the part taken is no valid JSON, come to a parse error; and a
\* chunk whose response comes to a parse error ends in the except clause
\* and adds no record to the list.
C25_ArrayIsSlicedOutOfTheContent ==
    (pc = "parsed" /\ response_content # <<>>) =>
        LET opens == IndicesOf(Looked, "[")
            closes == IndicesOf(Looked, "]")
            bracesAfter == {k \in IndicesOf(Looked, "}") : k > MinOf(opens)}
        IN  /\ StripS(response_content)[1] = FENCE
                 => \A k \in 1 .. Len(json_string) : json_string[k] # FENCE
            /\ (opens # {} /\ closes # {})
                 => /\ json_string
                         = SubSeq(Looked, MinOf(opens), MaxOf(closes))
                    /\ MaxOf(closes) > MinOf(opens)
                         => /\ Head(json_string) = "["
                            /\ json_string[Len(json_string)] = "]"
            /\ (opens # {} /\ closes = {} /\ bracesAfter # {})
                 => json_string
                      = SubSeq(Looked, MinOf(opens), MaxOf(bracesAfter))
                          \o <<"]">>
            /\ (opens # {} /\ closes = {} /\ bracesAfter = {})
                 => response.kind = "unparseable"
            /\ ~JsonLoads(json_string).ok => response.kind = "unparseable"
            /\ response.kind = "unparseable"
                 => /\ ChunkRaises(response)
                    /\ LogOf(response) = "error"
                    /\ response.items = <<>>
                    /\ \A acc \in {<<>>, <<Normalized(ItemA.rec)>>} :
                         QuestionsAfter(acc, response) = acc
            /\ response.kind = "unparseable"
                 => \/ opens # {} /\ closes = {} /\ bracesAfter = {}
                    \/ ~JsonLoads(json_string).ok

\* a fenced content that was cut off after the comma of its array has
\* come to the array of the one object before the comma
C25_Witness ==
    /\ pc = "parsed"
    /\ response_content = <<FENCE, "json", SPC, "[", "{", "}", ",">>
    /\ json_string = <<"[", "{", "}", "]">>
    /\ response.kind = "array"
    /\ Len(response.items) = 1
    /\ response.items[1].dict

----------------------------------------------------------------------------
(* Claims about the generate-questions handler                             *)

\* the records collected so far in the request: the handler's list and,
\* while a paper is in generate_questions_with_groq, the list built there
Collected ==
    IF pc \in {"call", "chunking", "chunked", "returned"}
    THEN req_questions \o all_questions
    ELSE req_questions

InPipeline == pc \in {"call", "raised", "chunking", "chunked", "returned"}

\* C11 as stated: a paper whose extracted text has, trimmed, fewer than 50
\* characters is never handed to the generation pipeline.
C11_Under50NotSentToPipeline ==
    InPipeline => StrippedLen(papers_data[paper_idx].content) >= 50

\* What the handler does: a paper whose extracted text has, trimmed, fewer
\* than 10 characters is never handed to the generation pipeline.
C11_Under10NotSentToPipeline ==
    InPipeline => StrippedLen(papers_data[paper_idx].content) >= 10

\* text extraction fails for the paper: no file at its path, an
\* extension that is not supported, or content that cannot be read or
\* is all but empty
ExtractionFails(paper) ==
    \/ paper.filePath \in {"absent", "missing"}
    \/ paper.ext \notin {".pdf", ".docx", ".doc", ".txt"}
    \/ ~paper.readable
    \/ StrippedLen(paper.content) < 10

NoQuestionsMessage ==
    [text |-> "No questions could be generated from the uploaded papers",
     exc |-> "none"]

----------------------------------------------------------------------------
(* Claims about the tables users and user_data                             *)

\* the answer is that of a sync that went through
SyncedAnswer(h) ==
    h.status = 200 /\ h.message.text = "User synced successfully"

\* the rows of external id c
RowsOf(rows, c) == {r \in rows : r.clerk_id = c}

\* C12 as stated, for the syncs that no uniqueness constraint stands
\* against: a sync of a well-formed request whose email no other row has
\* is answered with success, and the row of its external id then has the
\* request's email.
C12_LatestSyncIsStored ==
    [][\A d \in SyncInputs :
          (/\ http' # http \/ users' # users
           /\ Truthy(d.clerk_id) /\ Truthy(d.email)
           /\ \A r \in users : r.email = d.email => r.clerk_id = d.clerk_id
           /\ SyncUser(d))
             => /\ SyncedAnswer(http')
                /\ \A r \in RowsOf(users', d.clerk_id) : r.email = d.email]_vars

\* What holds of the syncs: a sync of a well-formed request whose email no
\* other row has goes through unless the database is locked, and after a sync that went through the table has exactly one
\* row of the request's external id, whose primary id is that external
\* id and whose email and name fields are the request's (full_name being
\* the request's name when it gives no full_name); the other rows are as
\* before.  Every row's primary id is its external id.
C12_SyncUpdatesInPlace ==
    /\ [](\A r \in users : r.id = r.clerk_id)
    /\ [][\A d \in SyncInputs :
            /\ (/\ http' # http \/ users' # users
                /\ ~db_locked
                /\ Truthy(d.clerk_id) /\ Truthy(d.email)
                /\ \A r \in users : r.email = d.email => r.clerk_id = d.clerk_id
                /\ SyncUser(d))
                  => SyncedAnswer(http')
            /\ (SyncedAnswer(http') /\ SyncUser(d)) =>
                  /\ Cardinality(RowsOf(users', d.clerk_id)) = 1
                  /\ \A r \in RowsOf(users', d.clerk_id) :
                       /\ r.id = d.clerk_id
                       /\ r.email = d.email
                       /\ r.first_name = d.first_name
                       /\ r.last_name = d.last_name
                       /\ r.full_name = (IF d.full_name \in {NullVal, StrVal(<<>>)}
                                         THEN d.name ELSE d.full_name)
                       /\ r.image_url = d.image_url
                       /\ http'.user = r
                  /\ users' \ RowsOf(users', d.clerk_id)
                       = users \ RowsOf(users, d.clerk_id)]_vars

\* the row of u1 has been synced to the email b@x and the name Al, next
\* to a row of u2
C12_Witness ==
    /\ SyncedAnswer(http)
    /\ Cardinality(users) = 2
    /\ http.user \in users
    /\ http.user.id = StrVal(<<"u", "1">>)
    /\ http.user.email = StrVal(<<"b", "@", "x">>)
    /\ http.user.full_name = StrVal(<<"A", "l">>)

\* C13: no two rows share an external id, none share an email; a sync
\* whose email is that of a row of another external id is answered with
\* an error and leaves both tables as they are.
C13_UniqueIdAndEmail ==
    /\ [](\A r1 \in users, r2 \in users :
            (r1.clerk_id = r2.clerk_id \/ r1.email = r2.email) => r1 = r2)
    /\ [][\A d \in SyncInputs :
            (/\ http' # http \/ users' # users
             /\ \E r \in users : r.email = d.email /\ r.clerk_id # d.clerk_id
             /\ SyncUser(d))
               => /\ http'.status \in {400, 500}
                  /\ ~http'.success
                  /\ users' = users
                  /\ user_data' = user_data]_vars

\* a sync has been refused for its email while two users are stored
C13_Witness ==
    /\ http.status = 500
    /\ http.caught = "IntegrityError"
    /\ Cardinality(users) = 2

DataKeys == {"theme", "lang"}

\* C14: user_data holds at most one row for a user and a key;
\* get_all_user_data gives a user's keys with what get_user_data gives
\* for each; a set through the user-data handler makes get_user_data
\* give, for the user and each key of the request, the str() of the
\* value sent, and leaves what it gives for every other user and key as
\* it was (None where nothing was ever set); a GET answers the mapping.
C14_UserDataIsAMapping ==
    /\ [](/\ \A r1 \in user_data, r2 \in user_data :
               (r1.user_id = r2.user_id /\ r1.key = r2.key) => r1 = r2
          /\ \A u \in Clerks :
               LET all == GetAllUserData(user_data, u)
               IN  /\ DOMAIN all = {k \in DataKeys :
                                      GetUserData(user_data, u, k) # NullVal}
                   /\ \A k \in DOMAIN all :
                        StrVal(all[k]) = GetUserData(user_data, u, k))
    /\ [][/\ \A c \in Clerks, data \in DataInputs :
               (/\ http'.status = 200
                /\ http'.message.text = "User data updated successfully"
                /\ UserData(c, "POST", data))
                 => \A u \in Clerks, k \in DataKeys :
                       GetUserData(user_data', u, k) =
                         IF u = c /\ k \in DOMAIN data
                         THEN StrVal(IF data[k].t = "null"
                                     THEN <<"N", "o", "n", "e">> ELSE data[k].v)
                         ELSE GetUserData(user_data, u, k)
          /\ \A c \in Clerks :
               (http'.status = 200 /\ UserData(c, "GET", <<>>)) =>
                  http'.data = GetAllUserData(user_data, c)
          /\ user_data' # user_data =>
                 http'.message.text = "User data updated successfully"]_vars

\* u1 has theme 7 and lang dark, u2 has theme dark, and a set has just
\* been answered
C14_Witness ==
    /\ http.message.text = "User data updated successfully"
    /\ GetUserData(user_data, StrVal(<<"u", "1">>), "theme") = StrVal(<<"7">>)
    /\ GetUserData(user_data, StrVal(<<"u", "1">>), "lang")
         = StrVal(<<"d", "a", "r", "k">>)
    /\ GetUserData(user_data, StrVal(<<"u", "2">>), "theme")
         = StrVal(<<"d", "a", "r", "k">>)
    /\ GetUserData(user_data, StrVal(<<"u", "2">>), "lang") = NullVal


\* the pairs stored for the user id c
PairsOf(rows, c) == {r \in rows : r.user_id = c}

\* C28: a delete-user request answered 200 removes the users row of its
\* external id and no other row, and leaves user_data as it was; every
\* users row has its external id as its id, so a row that a later sync
\* inserts for the id has the id the deleted row had; a user-data request
\* for an id that has no users row is answered 404 and changes nothing; a
\* sync-user request leaves user_data as it was; the pairs of an id change
\* only in a user-data request for that id, made while it has a users row
\* and answered 200; and a GET on user-data for an id that has a users row
\* is answered 200 with the pairs that user_data holds for the id.
C28_DeleteKeepsUserData ==
    /\ [](\A r \in users : r.id = r.clerk_id)
    /\ [][/\ \A c \in Clerks :
               (pc = "idle" /\ DeleteUserEndpoint(c))
               => /\ user_data' = user_data
                  /\ http'.status = 200
                       => /\ RowsOf(users, c) # {}
                          /\ users' = users \ RowsOf(users, c)
                  /\ http'.status # 200 => users' = users
          /\ \A c \in Clerks, method \in {"GET", "POST", "PUT"},
                data \in DataInputs :
               (pc = "idle" /\ RowsOf(users, c) = {} /\ UserData(c, method, data))
               => /\ http'.status = 404
                  /\ user_data' = user_data
          /\ \A data \in SyncInputs :
               (pc = "idle" /\ user_data' # user_data) => ~SyncUser(data)
          /\ \A c \in Clerks :
               PairsOf(user_data', c) # PairsOf(user_data, c)
               => /\ RowsOf(users, c) # {}
                  /\ \E method \in {"POST", "PUT"}, data \in DataInputs :
                       UserData(c, method, data)
                  /\ http'.message.text = "User data updated successfully"
          /\ \A c \in Clerks :
               (pc = "idle" /\ RowsOf(users, c) # {} /\ UserData(c, "GET", <<>>))
               => /\ http'.status = 200
                  /\ DOMAIN http'.data = {r.key : r \in PairsOf(user_data, c)}
                  /\ \A r \in PairsOf(user_data, c) :
                       http'.data[r.key] = r.value]_vars

\* the user u1 has been deleted: it has no users row, its two pairs are
\* still stored, and a user-data request for it has been answered 404
C28_Witness ==
    /\ RowsOf(users, StrVal(<<"u", "1">>)) = {}
    /\ RowsOf(users, StrVal(<<"u", "2">>)) # {}
    /\ Cardinality(PairsOf(user_data, StrVal(<<"u", "1">>))) = 2
    /\ http = Answer(404, "User not found", "none", "none")

----------------------------------------------------------------------------
(* Claims about the documents of the word editor                           *)

\* no stored document has the id
NotStored(document_id) ==
    \A k \in 1 .. Len(documents) : documents[k].id # document_id

ExportFormats == {<<"p", "d", "f">>, <<"d", "o", "c", "x">>}

\* C15: an edit-doc or download-doc request whose document id is the id
\* of no stored document (a string that no document has, or a value that
\* is no string) is answered 404 with success false and no file, and
\* leaves documents and doc_id_counter as they are.
C15_UnknownDocumentIs404 ==
    [][/\ \A d \in EditInputs :
            (/\ d.documentId.t # "str" \/ NotStored(d.documentId.v)
             /\ EditDoc(d))
               => /\ http'.status = 404 /\ ~http'.success
                  /\ "preview" \notin DOMAIN http'
                  /\ documents' = documents
                  /\ doc_id_counter' = doc_id_counter
       /\ \A id \in DocIds, format \in ExportFormats :
            (NotStored(id) /\ DownloadDoc(id, format))
               => /\ http'.status = 404 /\ ~http'.success
                  /\ "file" \notin DOMAIN http'
                  /\ documents' = documents
                  /\ doc_id_counter' = doc_id_counter]_vars

\* two documents are stored, none of them has the id asked for, and the
\* answer is the 404
C15_Witness ==
    /\ Len(documents) = 2
    /\ doc_id_counter = 3
    /\ http.status = 404
    /\ http.message.text = "Document not found"
    /\ ~http.success

\* the line is empty or all whitespace
Blank(line) == \A k \in 1 .. Len(line) : line[k] \in {SPC, NL}

\* the stored document of the id
DocOf(document_id) ==
    documents[CHOOSE k \in 1 .. Len(documents) : documents[k].id = document_id]

\* a download of the document in the format has just been answered with
\* a file
Exported(document_id, format) ==
    /\ http'.status = 200
    /\ "file" \in DOMAIN http'
    /\ documents' = documents
    /\ ~NotStored(document_id)
    /\ DownloadDoc(document_id, format)

\* C16 as stated: the exported file has one element for each line of the
\* content, in order: for a line that is not blank a paragraph with the
\* line's text, for a blank line a single-space paragraph (DOCX) or a
\* spacer (PDF).
C16_OneElementPerLine ==
    [][\A id \in DocIds, format \in ExportFormats :
          Exported(id, format) =>
             LET lines == Split(DocOf(id).content)
                 elements == http'.file.elements
             IN  /\ Len(elements) = Len(lines)
                 /\ \A k \in 1 .. Len(lines) :
                      IF Blank(lines[k])
                      THEN IF format = <<"p", "d", "f">>
                           THEN elements[k].kind = "spacer"
                           ELSE elements[k] = [kind |-> "paragraph",
                                               text |-> <<SPC>>]
                      ELSE elements[k] = [kind |-> "paragraph",
                                          text |-> lines[k]]]_vars

\* s without the whitespace at its end / at both ends, said without the
\* operators of the model: t is that part of s
IsRStripOf(t, s) ==
    /\ Len(t) <= Len(s)
    /\ t = SubSeq(s, 1, Len(t))
    /\ t # <<>> => t[Len(t)] \notin {SPC, NL}
    /\ \A k \in Len(t) + 1 .. Len(s) : s[k] \in {SPC, NL}

IsStripOf(t, s) ==
    \E lead \in 0 .. Len(s) :
        /\ \A k \in 1 .. lead : s[k] \in {SPC, NL}
        /\ t # <<>> => t[1] \notin {SPC, NL}
        /\ IsRStripOf(t, SubSeq(s, lead + 1, Len(s)))

\* where the elements of line k begin in the PDF: a line that is not
\* blank takes two places, a blank line one
PdfPlace(lines, k) ==
    1 + Cardinality({j \in 1 .. k - 1 : Blank(lines[j])})
      + 2 * Cardinality({j \in 1 .. k - 1 : ~Blank(lines[j])})

\* C16 as amended: the content is split on newline and the lines are
\* rendered in order.  DOCX: one paragraph for each line, with the
\* line's text less its trailing whitespace, or a single space for a
\* blank line.  PDF: for a line that is not blank a paragraph with the
\* line's text less the whitespace at both ends, followed by a spacer of
\* 0.3 times the font size; for a blank line one spacer of 0.6 times the
\* font size.
C16_LinesToElements ==
    [][\A id \in DocIds, format \in ExportFormats :
          Exported(id, format) =>
             LET lines == Split(DocOf(id).content)
                 elements == http'.file.elements
                 size == http'.file.size
             IN  IF format = <<"d", "o", "c", "x">>
                 THEN /\ Len(elements) = Len(lines)
                      /\ \A k \in 1 .. Len(lines) :
                           /\ elements[k].kind = "paragraph"
                           /\ IF Blank(lines[k])
                              THEN elements[k].text = <<SPC>>
                              ELSE IsRStripOf(elements[k].text, lines[k])
                 ELSE /\ Len(elements) = PdfPlace(lines, Len(lines) + 1) - 1
                      /\ \A k \in 1 .. Len(lines) :
                           LET p == PdfPlace(lines, k)
                           IN  IF Blank(lines[k])
                               THEN elements[p] = [kind |-> "spacer",
                                                   height |-> 6 * size]
                               ELSE /\ elements[p].kind = "paragraph"
                                    /\ elements[p].text # <<>>
                                    /\ IsStripOf(elements[p].text, lines[k])
                                    /\ elements[p + 1] = [kind |-> "spacer",
                                                          height |-> 3 * size]]_vars

\* "Hello\n\nWorld" at 12pt has been exported as PDF: Hello and its
\* spacer, the spacer of the blank line, World and its spacer
C16_Witness ==
    /\ http.status = 200
    /\ "file" \in DOMAIN http
    /\ http.format = "pdf"
    /\ http.file.elements =
         <<[kind |-> "paragraph", text |-> <<"H", "e", "l", "l", "o">>],
           [kind |-> "spacer", height |-> 3600],
           [kind |-> "spacer", height |-> 7200],
           [kind |-> "paragraph", text |-> <<"W", "o", "r", "l", "d">>],
           [kind |-> "spacer", height |-> 3600]>>

\* C20 as stated: a download of a stored document renders in both
\* formats whatever formatting edit-doc has left it with, with 12pt where
\* the font size is no number, 1.5 where the line spacing is none, left
\* where the alignment is not known and 1-inch margins where there are
\* none.
C20_BothPathsRenderWithDefaults ==
    [][\A id \in DocIds, format \in ExportFormats :
          (~NotStored(id) /\ DownloadDoc(id, format)) =>
             LET f == DocOf(id).formatting
                 file == http'.file
             IN  /\ http'.status = 200
                 /\ ~FloatOk(f.fontSize) => file.size = 1200
                 /\ ~FloatOk(f.lineSpacing) => file.spacing = 150
                 /\ f.alignment.v \notin Alignments => file.alignment = <<"l", "e", "f", "t">>
                 /\ f.margins.t # "dict" =>
                      file.margins.top = (IF format = <<"p", "d", "f">> THEN 7200
                                          ELSE 100)]_vars

\* What holds: the DOCX path renders, with those defaults, every
\* formatting whose margins are a record, and the PDF path renders the
\* formattings whose font size and line spacing are numbers and whose
\* colour is a numeral.
C20_DocxFallsBackPdfRaises ==
    [][\A id \in DocIds, format \in ExportFormats :
          (~NotStored(id) /\ DownloadDoc(id, format)) =>
             LET f == DocOf(id).formatting
                 file == http'.file
             IN  IF format = <<"d", "o", "c", "x">>
                 THEN f.margins.t = "dict" =>
                        /\ http'.status = 200
                        /\ ~FloatOk(f.fontSize) => file.size = 1200
                        /\ ~FloatOk(f.lineSpacing) => file.spacing = 150
                        /\ f.alignment.v \notin Alignments =>
                             file.alignment = <<"l", "e", "f", "t">>
                 ELSE http'.status = 200 <=>
                        /\ f.margins.t = "dict"
                        /\ FloatOk(f.fontSize) /\ FloatOk(f.lineSpacing)
                        /\ ~HexColorRaises(f.fontColor)]_vars


Sides == {"top", "bottom", "left", "right"}

\* the keys an edit-doc request gives in its formatting
NamedKeys(data) ==
    IF data.formatting.t = "dict" THEN DOMAIN data.formatting.v ELSE {}

\* C26: an edit-doc request answered 200 leaves the collection as long as
\* it was and every other document as it was; the document it names keeps
\* its id and its filename; its content is the request's content when that
\* is a string and the content it had otherwise; every formatting key
\* other than margins has the request's value when the request gives the
\* key and the value it had otherwise; margins are the margins it had when
\* the request gives none, the request's value when that is no object, and
\* otherwise side by side float() of the request's value for a side the
\* request gives and does not set to null, and the side it had for the
\* other sides.
C26_EditOverwritesOnlyWhatIsNamed ==
    [][\A data \in EditInputs :
         (pc = "idle" /\ data.documentId.t = "str" /\ http'.status = 200
            /\ "file" \notin DOMAIN http' /\ EditDoc(data))
         => LET k == CHOOSE j \in FindDoc(data.documentId.v) : TRUE
                old == documents[k]
                new == documents'[k]
                named == NamedKeys(data)
            IN  /\ Len(documents') = Len(documents)
                /\ \A j \in 1 .. Len(documents) :
                     j # k => documents'[j] = documents[j]
                /\ new.id = old.id
                /\ new.id = data.documentId.v
                /\ new.filename = old.filename
                /\ new.content = IF data.content.t = "str"
                                 THEN data.content.v ELSE old.content
                /\ DOMAIN new.formatting = DOMAIN old.formatting
                /\ \A key \in DOMAIN old.formatting \ {"margins"} :
                     new.formatting[key] =
                        IF key \in named THEN data.formatting.v[key]
                        ELSE old.formatting[key]
                /\ IF "margins" \notin named
                   THEN new.formatting.margins = old.formatting.margins
                   ELSE IF data.formatting.v["margins"].t # "dict"
                   THEN new.formatting.margins.t = data.formatting.v["margins"].t
                   ELSE LET m == data.formatting.v["margins"].v
                        IN  \A s \in Sides :
                              new.formatting.margins[s] =
                                 IF s \in DOMAIN m /\ m[s].t # "null"
                                 THEN FloatOf(m[s])
                                 ELSE old.formatting.margins[s]]_vars

\* an edit of document 1 that sets the top margin to null has been
\* answered 200; the document has the top margin, the font and the content
\* that earlier edits gave it
C26_Witness ==
    /\ http.status = 200
    /\ "preview" \in DOMAIN http
    /\ Len(documents) = 2
    /\ documents[1].id = <<"1">>
    /\ documents[1].formatting.margins.t = "dict"
    /\ documents[1].formatting.margins.top = 200
    /\ documents[1].formatting.margins.left = 100
    /\ documents[1].formatting.fontFamily = StrVal(<<"C", "o", "m", "i", "c">>)
    /\ documents[1].content = <<"H", "e", "l", "l", "o", NL, NL, "W", "o", "r", "l", "d">>
    /\ documents[2].formatting = DEFAULT_FORMATTING


\* C27: an edit-doc request, whatever it is answered, leaves every
\* document other than the one it names, and DEFAULT_FORMATTING, as they
\* were; DEFAULT_FORMATTING is at all times what it was when the process
\* started; and a document that upload-doc stores has the default
\* formatting, its margins being the default margins dict itself.
C27_EditLeavesOtherDocumentsAndDefault ==
    /\ [](default_formatting = DEFAULT_FORMATTING)
    /\ [][/\ \A data \in EditInputs :
               (pc = "idle" /\ "file" \notin DOMAIN http' /\ EditDoc(data))
               => /\ Len(documents') = Len(documents)
                  /\ \A j \in 1 .. Len(documents) :
                       (data.documentId.t # "str"
                          \/ j \notin FindDoc(data.documentId.v))
                       => documents'[j] = documents[j]
                  /\ default_formatting' = default_formatting
          /\ \A data \in UploadInputs :
               (pc = "idle" /\ http'.status = 200
                  /\ "file" \notin DOMAIN http' /\ UploadDoc(data))
               => /\ Len(documents') = Len(documents) + 1
                  /\ documents'[Len(documents')].formatting = DEFAULT_FORMATTING
                  /\ documents'[Len(documents')].formatting.margins.obj = "default"
                  /\ \A j \in 1 .. Len(documents) :
                       documents'[j] = documents[j]]_vars

\* document 2 has just been uploaded, after an edit had given document 1
\* margins of its own; document 2 has the default formatting and the
\* default margins dict
C27_Witness ==
    /\ Len(documents) = 2
    /\ "documentId" \in DOMAIN http
    /\ http.documentId = <<"2">>
    /\ documents[1].formatting.margins.t = "dict"
    /\ documents[1].formatting.margins.obj = "copy"
    /\ documents[1].formatting.margins.top = 200
    /\ documents[2].formatting = DEFAULT_FORMATTING
    /\ documents[2].formatting.margins.obj = "default"
    /\ default_formatting.margins.top = 100

----------------------------------------------------------------------------
(* Claims about the handlers taken together                                *)

\* C17 as stated: when a handler has caught an exception its answer is a
\* 500 with success false whose message has the exception's message.
C17_CaughtExceptionIsReported ==
    http.caught # "none" =>
        /\ http.status = 500
        /\ ~http.success
        /\ http.message.exc = http.caught

\* What holds: when a handler has caught an exception its answer is a 500
\* with success false.
C17_CaughtExceptionIsAnswered500 ==
    http.caught # "none" => (http.status = 500 /\ ~http.success)

\* the ids of the records of a collection, in order
IdsOf(list) == [k \in 1 .. Len(list) |-> list[k].id]

\* C19: no step removes a record of uploaded_papers, generated_questions
\* or documents or changes a stored record's id (the papers and question
\* sets stay as they were stored, a document keeps its id and filename);
\* and a download of a stored document or question set is not answered
\* 404, a stored question set being answered with its file.
C19_CollectionsAppendOnly ==
    [][/\ IsPrefix(uploaded_papers, uploaded_papers')
       /\ IsPrefix(generated_questions, generated_questions')
       /\ IsPrefix(IdsOf(documents), IdsOf(documents'))
       /\ \A k \in 1 .. Len(documents) :
            documents'[k].filename = documents[k].filename
       /\ \A id \in DocIds :
            /\ \A format \in ExportFormats :
                 (~NotStored(id) /\ DownloadDoc(id, format))
                    => http'.status \in {200, 500}
            /\ ((\E k \in 1 .. Len(generated_questions) :
                    generated_questions[k].id = id)
                /\ DownloadQuestions(id))
                  => /\ http'.status = 200
                     /\ \E k \in 1 .. Len(generated_questions) :
                          /\ generated_questions[k].id = id
                          /\ Len(http'.file.elements)
                               = Len(generated_questions[k].questions)]_vars

\* two papers, two question sets and two documents are stored, the first
\* document has been edited, and the first question set has just been
\* downloaded
C19_Witness ==
    /\ Len(uploaded_papers) = 2
    /\ Len(generated_questions) = 2
    /\ Len(documents) = 2
    /\ IdsOf(documents) = <<<<"1">>, <<"2">>>>
    /\ documents[1].content = <<"H", "i">>
    /\ http.status = 200
    /\ "file" \in DOMAIN http
    /\ http.file.elements[1].kind = "question"
    /\ http.file.elements[1].text = generated_questions[1].questions[1].question


\* a generate-questions request is being handled whose papers are those
\* the fallback of line 487 selected from uploaded_papers, none included
PaperIdsRequest ==
    /\ pc # "idle"
    /\ \A k \in 1 .. Len(papers_data) :
         \E j \in 1 .. Len(uploaded_papers) : papers_data[k] = uploaded_papers[j]

\* C29: a generate-questions request that gives no papers, whatever
\* paperIds it gives and whatever was uploaded before, never gets to the
\* call of generate_questions_with_groq: no text is extracted, no request
\* is sent to the endpoint, no question is collected, and no question set
\* is stored.  It is answered 404 when the fallback selects no paper, and
\* 500 when it selects some.
C29_PaperIdsRequestNeverGenerates ==
    /\ [](PaperIdsRequest =>
            /\ pc \in {"request", "papers", "done"}
            /\ text = NoText
            /\ n_requests = 0
            /\ req_questions = <<>>
            /\ pc = "done" =>
                 http.status = IF papers_data = <<>> THEN 404 ELSE 500)
    /\ [][/\ PaperIdsRequest =>
               /\ generated_questions' = generated_questions
               /\ questions_id_counter' = questions_id_counter
          /\ \A ids \in {{}, {<<"2">>}} :
               (pc = "request" /\ papers_data = <<>> /\ StartRequest(ids))
               => LET selected ==
                          {j \in 1 .. Len(uploaded_papers) :
                              ids = {} \/ uploaded_papers[j].id \in ids}
                  IN  /\ Len(papers_data') = Cardinality(selected)
                      /\ IF selected = {}
                         THEN pc' = "done" /\ http'.status = 404
                         ELSE pc' = "papers"]_vars

\* two papers are uploaded; a request that named the paper 2 by its id
\* has been answered 500, and one question set, of an earlier request that
\* gave its papers, is stored
C29_Witness ==
    /\ pc = "done"
    /\ PaperIdsRequest
    /\ Len(uploaded_papers) = 2
    /\ Len(papers_data) = 1
    /\ papers_data[1].id = <<"2">>
    /\ http.status = 500
    /\ Len(generated_questions) = 1


\* the records of a collection have the ids "1", "2", ... in the order in
\* which they were stored, and its counter is one more than their number
NumberedInOrder(collection, counter) ==
    /\ \A k \in 1 .. Len(collection) : collection[k].id = StrOfInt(k)
    /\ \A j, k \in 1 .. Len(collection) :
         j # k => collection[j].id # collection[k].id
    /\ counter = Len(collection) + 1

\* the in-memory collections and their counters
Stores ==
    <<uploaded_papers, paper_id_counter, generated_questions,
      questions_id_counter, IdsOf(documents), doc_id_counter>>

\* the step is the last of a request, and the request is answered 404 or
\* 500
FailedRequest ==
    /\ http'.status \in {404, 500}
    /\ \/ \E data \in PaperUploads : UploadPapers(data)
       \/ \E ids \in {{}, {<<"2">>}} : StartRequest(ids) /\ pc' = "done"
       \/ Respond
       \/ \E d \in DocIds : DownloadQuestions(d)
       \/ UploadDoc([k \in {"filename"} |-> StrVal(<<"c", "v", ".", "d", "o", "c", "x">>)])
       \/ \E data \in AppEdits : EditDoc(data)
       \/ \E d \in DocIds, format \in ExportFormats : DownloadDoc(d, format)

\* C30 as stated: with the requests handled one after another, the
\* records of each collection have the ids "1", "2", ... in the order in
\* which they were stored and the collection's counter is one more than
\* their number; the question sets and their counter change only in the
\* step that answers a generate-questions request with success; and a
\* request answered 404 or 500 leaves the collections and the counters
\* as they were.
C30_FailedRequestChangesNothing ==
    /\ [](/\ NumberedInOrder(uploaded_papers, paper_id_counter)
          /\ NumberedInOrder(generated_questions, questions_id_counter)
          /\ NumberedInOrder(documents, doc_id_counter))
    /\ [][/\ <<generated_questions, questions_id_counter>>'
                # <<generated_questions, questions_id_counter>>
               => Respond /\ http'.status = 200 /\ http'.success
          /\ FailedRequest => Stores' = Stores]_vars

\* What holds: the same, except that an upload-papers request answered
\* 500 has stored the papers that come before the element it failed on.
C30_CountersNumberTheRecords ==
    /\ [](/\ NumberedInOrder(uploaded_papers, paper_id_counter)
          /\ NumberedInOrder(generated_questions, questions_id_counter)
          /\ NumberedInOrder(documents, doc_id_counter))
    /\ [][/\ <<generated_questions, questions_id_counter>>'
                # <<generated_questions, questions_id_counter>>
               => Respond /\ http'.status = 200 /\ http'.success
          /\ (FailedRequest /\ ~(\E data \in PaperUploads : UploadPapers(data)))
               => Stores' = Stores
          /\ \A data \in PaperUploads :
               (UploadPapers(data) /\ http'.status = 500)
               => /\ IsPrefix(uploaded_papers, uploaded_papers')
                  /\ <<generated_questions, questions_id_counter,
                       documents, doc_id_counter>>'
                       = <<generated_questions, questions_id_counter,
                           documents, doc_id_counter>>]_vars


----------------------------------------------------------------------------
(* Claims about requests handled at the same time                          *)

\* the id of every record of a collection is a number from 1 up to the
\* record's place in the collection
IdsUpToPlace(collection) ==
    \A j \in 1 .. Len(collection) :
        \E n \in 1 .. j : collection[j].id = StrOfInt(n)

\* C21: whatever the uploads handled at the same time have done to the
\* ids, a download-doc request for an id that is stored is answered with
\* the document that was stored first under that id, and with no other
\* of that id; a counter is never more than one ahead of the number of
\* records stored, and the id of a record is a number from 1 up to the
\* record's place in its collection.
C21_LookupGivesTheFirstOfTwo ==
    /\ [](/\ doc_id_counter <= Len(documents) + 1
          /\ paper_id_counter <= Len(uploaded_papers) + 1
          /\ IdsUpToPlace(documents)
          /\ IdsUpToPlace(uploaded_papers))
    /\ [][\A d \in {<<"1">>} :
            (calls' = calls /\ DownloadDoc(d, <<"d", "o", "c", "x">>))
            => LET stored == {k \in 1 .. Len(documents) : documents[k].id = d}
               IN  IF stored = {} THEN http'.status = 404
                   ELSE /\ http'.status = 200
                        /\ http'.file = BuildDocxDocument(documents[MinOf(stored)])
                        /\ \A k \in stored :
                             documents[k].filename # documents[MinOf(stored)].filename
                               => http'.file # BuildDocxDocument(documents[k])]_vars

\* two upload-doc requests have both read the counter 1 and have stored
\* two documents of id "1", and so have two upload-papers requests; all
\* have returned, and a download of the document "1" has been answered
\* with the first of the two
C21_Witness ==
    /\ \A c \in Calls : calls[c].pc = "none"
    /\ Len(documents) = 2
    /\ documents[1].id = <<"1">>
    /\ documents[2].id = <<"1">>
    /\ documents[1].filename # documents[2].filename
    /\ Len(uploaded_papers) = 2
    /\ uploaded_papers[1].id = uploaded_papers[2].id
    /\ http.status = 200
    /\ "file" \in DOMAIN http
    /\ http.file = BuildDocxDocument(documents[1])
    /\ http.file # BuildDocxDocument(documents[2])

\* a call of sync-user that has passed the check of its fields
Syncing(c) == calls[c].pc \in {"write", "commit", "readback"}

\* no row of another user has the call's email, and no connection was
\* left holding the write lock
Unhindered(c) ==
    /\ ~db_locked
    /\ ~\E r \in users : /\ r.clerk_id # calls[c].u.clerk_id
                         /\ r.email = calls[c].u.email

\* C22: a sync-user call with a non-empty external id and email, whose
\* email no other user has, ends with the answer 200 and a row of its
\* external id in the table, in every interleaving of two calls; and the
\* table never has two rows of one external id.
C22_EverySyncSucceeds ==
    /\ [](\A id \in Clerks : Cardinality(RowsOf(users, id)) <= 1)
    /\ [][\A c \in Calls :
            (Syncing(c) /\ calls'[c].pc = "none" /\ Unhindered(c))
            => /\ http'.status = 200
               /\ \E r \in users' : r.clerk_id = calls[c].u.clerk_id]_vars

\* C22, what holds: the table never has two rows of one external id, and
\* the id of a row is its external id.  A call that found the row of its
\* id, or that found none and still finds none when it writes, ends
\* with 200 and its fields in the table when it is unhindered; a call
\* that found none and writes after another call has committed a row of
\* the id is answered 500, changes nothing, and leaves the write lock
\* held.
C22_OneRowPerIdOneCallRefused ==
    /\ [](\A id \in Clerks :
             /\ Cardinality(RowsOf(users, id)) <= 1
             /\ \A r \in RowsOf(users, id) : r.id = id)
    /\ [][\A c \in Calls :
            (calls[c].pc = "write" /\ calls'[c].pc # "write" /\ Unhindered(c))
            => IF ~calls[c].existing /\ RowsOf(users, calls[c].u.clerk_id) # {}
               THEN /\ http'.status = 500
                    /\ http'.caught = "IntegrityError"
                    /\ calls'[c].pc = "none"
                    /\ users' = users
                    /\ db_locked'
               ELSE /\ calls'[c].pc = "commit"
                    /\ http' = http]_vars
    /\ [][\A c \in Calls :
            (calls[c].pc = "commit" /\ calls'[c].pc # "commit")
            => /\ calls'[c].pc = "readback"
               /\ [id |-> calls[c].u.clerk_id] @@ calls[c].u \in users'
               /\ \A r \in users' :
                     r.clerk_id # calls[c].u.clerk_id => r \in users]_vars
    /\ [][\A c \in Calls :
            (calls[c].pc = "readback" /\ calls'[c].pc # "readback")
            => /\ http'.status = 200
               /\ http'.user \in RowsOf(users, calls[c].u.clerk_id)
               /\ users' = users]_vars
====
